---- MODULE Spec2Model ----
(***************************************************************************)
(* TradingAgents-CN: the agent graph controller (debate routing and        *)
(* progress map), the analysis task endpoints, the data source manager     *)
(* (priority fallback and kline write-through) and the MCP tool loader     *)
(* (restart budget), each modelled from its source as a state machine.     *)
(*                                                                         *)
(* Texts are sequences of tokens; a token is a record [w, n].  The tokens  *)
(* that the code searches for are named below; percentages are kept in     *)
(* hundredths of a percent (51.25 is 5125); times are in seconds.          *)
(***************************************************************************)
EXTENDS Integers, Sequences, FiniteSets, TLC

VARIABLES
    \* ---- agent graph (conditional_logic.py, bull_researcher.py, dynamic_analyst.py)
    max_debate_rounds,        \* ConditionalLogic.max_debate_rounds
    max_risk_discuss_rounds,  \* ConditionalLogic.max_risk_discuss_rounds
    selected_analysts,        \* the enabled analyst slugs of the run, in order
    node,                     \* the node the graph runs next
    analyst_index,            \* how many analyst nodes have run
    investment_debate_state,  \* [count, current_response, current_round_index]
    risk_debate_state,        \* [count, latest_speaker]
    spoken,                   \* per role, how many times its node has run
    progress_percent,         \* the percentage last reported for the task
    \* ---- analysis tasks (app/routers/analysis.py)
    mem_tasks,                \* the in-memory table: task id -> status, or "absent"
    db_tasks,                 \* analysis_tasks: task id -> status, or "absent"
    task_user,                \* task id -> the user who submitted it, or "nobody"
    cancel_flag,              \* task id -> whether its cancellation was requested
    \* ---- data source manager (tradingagents/dataflows/manager.py)
    adapters,                 \* DataSourceManager.adapters: [name, priority], sorted
    stock_daily_quotes,       \* the quote store: the documents, in insertion order
    now,                      \* datetime.utcnow()
    calls_left,               \* the requests the callers will still make
    call,                     \* the *_with_fallback call in progress or last returned
    \* ---- MCP tool loader (tradingagents/tools/mcp/loader.py)
    initialized,              \* MCPToolLoaderFactory._initialized
    server_configs,           \* the names in _server_configs
    mcp_clients,              \* the names in _mcp_clients
    mcp_tools,                \* the servers whose tools are in _mcp_tools
    tracked_pids,             \* the names in _tracked_pids
    server_status,            \* health monitor: name -> status
    restart_counts,           \* _restart_counts, 0 for a missing key
    last_restart_time,        \* _last_restart_time, 0 for a missing key
    clock,                    \* time.time(), in seconds
    restart_log,              \* per server, the times of the restarts performed
    restart_outcome,          \* what the last step did, if it was a restart_server call
    enabled_servers,          \* the names whose config in _server_configs is enabled
    bridge_lock,              \* who holds MCPToolLoaderFactory._lock
    toggle_call,              \* the toggle_server call in progress
    reload_pc,                \* where the reload_config call in progress is
    children,                 \* the child processes launched and not yet sent a signal
    closed,                   \* close() has run
    \* ---- the circuit breaker of the wrapped tools
    tool_call_records,        \* the ToolCallRecord of each (task, tool)
    breaker_clock,            \* the time the breaker manager reads
    tripped,                  \* the (task, tool) pairs that have failed 3 times in a row
    last_call,                \* the last call of a tool and what it returned
    \* ---- MCPToolLoaderFactory.load_tools
    load_request,             \* the cached tools and the arguments of the last load_tools call
    loaded_tools,             \* what that call returned
    \* ---- POST /batch
    stock_symbols,            \* how many symbols the batch request lists
    task_ids,                 \* the symbols (by position) a task record was created for
    batch_response,           \* the status the request was answered with
    background,               \* where the run_concurrent_analysis task is
    tasks,                    \* the analysis of each symbol
    \* ---- GET /tasks/{task_id}/status
    memory_table,             \* what the analysis service holds in memory for the task
    analysis_tasks,           \* the document of the task in db.analysis_tasks
    analysis_reports,         \* the document of the task in db.analysis_reports
    status_response,          \* the answer of the endpoint
    \* ---- GET /tasks/{task_id}/result
    result_data,              \* the stored result: its reports, state and detailed_analysis
    result_response,          \* the reports of the answer of the endpoint
    \* ---- the summary node
    llm_answer,               \* what llm.invoke did: it raised, or the content it answered
    summary_result,           \* what summary_node returned
    \* ---- the accumulated debate report (bull_researcher.py)
    debate_state,             \* investment_debate_state with its histories and reports
    debate_node,              \* the researcher the router chose, or "Research Manager"
    \* ---- the agent configuration files and their cache (dynamic_analyst.py)
    config_files,             \* path -> the file: whether it exists, its text, its mtime
    config_cache,             \* DynamicAnalystFactory._config_cache, "none" for a missing key
    config_mtime,             \* DynamicAnalystFactory._config_mtime, -1 for a missing key
    last_load,                \* the last load_config call and what it returned
    \* ---- the progress subscriptions of a task (websocket_task_progress)
    ws_pc,                    \* socket -> where its handler is
    ws_subscriptions,         \* the sockets the websocket manager holds for the task
    ws_task,                  \* the task: its status, the nodes done, the result saved
    \* ---- the analyst nodes of stage A and the keys they write (generic_agent.py)
    enabled_slugs,            \* the slugs of the enabled analyst records, in order
    analysts_run,             \* the positions of the analysts whose node has run
    key_writers,              \* the (state key, slug) pairs: who wrote which key
    reports_dict,             \* state["reports"]: report key -> the slug whose report it holds
    \* ---- initialize_connections, step by step (loader.py)
    init_pc,                  \* caller -> where its initialize_connections call is
    init_pending,             \* the servers the call holding the lock has still to dial
    dial_count,               \* per server, how many times a client was created for it
    \* ---- DELETE /tasks/{task_id}
    delete_response,          \* the answer of the delete endpoint for the task
    \* ---- the process-wide progress manager (dynamic_analyst.py)
    run_pc,                   \* task -> where the run of its graph is
    pm_callback,              \* ProgressManager._callback: the task whose callback it is
    nodes_started,            \* task -> how many of its nodes have started
    deliveries,               \* the notifications delivered: whose node, whose callback
    \* ---- the rows written through by _save_kline_to_db (manager.py)
    quote_rows,               \* stock_daily_quotes: the documents, in insertion order
    saved_bars,               \* the bars whose save succeeded: code, date, provider, period
    saves_done                \* how many saves were made; the time of the next is one more

graphVars == <<max_debate_rounds, max_risk_discuss_rounds, selected_analysts, node,
               analyst_index, investment_debate_state, risk_debate_state, spoken,
               progress_percent>>

taskVars == <<mem_tasks, db_tasks, task_user, cancel_flag>>

managerVars == <<adapters, stock_daily_quotes, now, calls_left, call>>

mcpVars == <<initialized, server_configs, mcp_clients, mcp_tools, tracked_pids,
             server_status, restart_counts, last_restart_time, clock, restart_log,
             restart_outcome, enabled_servers, bridge_lock, toggle_call, reload_pc,
             children, closed>>

breakerVars == <<tool_call_records, breaker_clock, tripped, last_call>>

loadVars == <<load_request, loaded_tools>>

batchVars == <<stock_symbols, task_ids, batch_response, background, tasks>>

statusVars == <<memory_table, analysis_tasks, analysis_reports, status_response>>

resultVars == <<result_data, result_response>>

summaryVars == <<llm_answer, summary_result>>

debateVars == <<debate_state, debate_node>>

configVars == <<config_files, config_cache, config_mtime, last_load>>

wsVars == <<ws_pc, ws_subscriptions, ws_task>>

analystVars == <<enabled_slugs, analysts_run, key_writers, reports_dict>>

initVars == <<init_pc, init_pending, dial_count>>

deleteVars == <<delete_response>>

progressVars == <<run_pc, pm_callback, nodes_started, deliveries>>

writeThroughVars == <<quote_rows, saved_bars, saves_done>>

vars == <<graphVars, taskVars, managerVars, mcpVars, breakerVars, loadVars, batchVars,
          statusVars, resultVars, summaryVars, debateVars, configVars, wsVars, analystVars,
          initVars, deleteVars, progressVars, writeThroughVars>>

\* what a step of one subsystem leaves alone
GraphOnly == UNCHANGED <<taskVars, managerVars, mcpVars, breakerVars, loadVars, batchVars,
                         statusVars, resultVars, summaryVars, debateVars, configVars, wsVars,
                         analystVars, initVars, deleteVars, progressVars, writeThroughVars>>
TasksOnly == UNCHANGED <<graphVars, managerVars, mcpVars, breakerVars, loadVars, batchVars,
                         statusVars, resultVars, summaryVars, debateVars, configVars, wsVars,
                         analystVars, initVars, deleteVars, progressVars, writeThroughVars>>
ManagerOnly == UNCHANGED <<graphVars, taskVars, mcpVars, breakerVars, loadVars, batchVars,
                           statusVars, resultVars, summaryVars, debateVars, configVars, wsVars,
                           analystVars, initVars, deleteVars, progressVars, writeThroughVars>>
McpOnly == UNCHANGED <<graphVars, taskVars, managerVars, breakerVars, loadVars, batchVars,
                       statusVars, resultVars, summaryVars, debateVars, configVars, wsVars,
                       analystVars, initVars, deleteVars, progressVars, writeThroughVars>>
BreakerOnly == UNCHANGED <<graphVars, taskVars, managerVars, mcpVars, loadVars, batchVars,
                           statusVars, resultVars, summaryVars, debateVars, configVars, wsVars,
                           analystVars, initVars, deleteVars, progressVars, writeThroughVars>>
LoadOnly == UNCHANGED <<graphVars, taskVars, managerVars, mcpVars, breakerVars, batchVars,
                        statusVars, resultVars, summaryVars, debateVars, configVars, wsVars,
                        analystVars, initVars, deleteVars, progressVars, writeThroughVars>>
BatchOnly == UNCHANGED <<graphVars, taskVars, managerVars, mcpVars, breakerVars, loadVars,
                         statusVars, resultVars, summaryVars, debateVars, configVars, wsVars,
                         analystVars, initVars, deleteVars, progressVars, writeThroughVars>>
StatusOnly == UNCHANGED <<graphVars, taskVars, managerVars, mcpVars, breakerVars, loadVars,
                          batchVars, resultVars, summaryVars, debateVars, configVars, wsVars,
                          analystVars, initVars, deleteVars, progressVars, writeThroughVars>>
ResultOnly == UNCHANGED <<graphVars, taskVars, managerVars, mcpVars, breakerVars, loadVars,
                          batchVars, statusVars, summaryVars, debateVars, configVars, wsVars,
                          analystVars, initVars, deleteVars, progressVars, writeThroughVars>>
SummaryOnly == UNCHANGED <<graphVars, taskVars, managerVars, mcpVars, breakerVars, loadVars,
                           batchVars, statusVars, resultVars, debateVars, configVars, wsVars,
                           analystVars, initVars, deleteVars, progressVars, writeThroughVars>>
DebateOnly == UNCHANGED <<graphVars, taskVars, managerVars, mcpVars, breakerVars, loadVars,
                          batchVars, statusVars, resultVars, summaryVars, configVars, wsVars,
                          analystVars, initVars, deleteVars, progressVars, writeThroughVars>>
ConfigOnly == UNCHANGED <<graphVars, taskVars, managerVars, mcpVars, breakerVars, loadVars,
                          batchVars, statusVars, resultVars, summaryVars, debateVars, wsVars,
                          analystVars, initVars, deleteVars, progressVars, writeThroughVars>>
WsOnly == UNCHANGED <<graphVars, taskVars, managerVars, mcpVars, breakerVars, loadVars,
                      batchVars, statusVars, resultVars, summaryVars, debateVars, configVars,
                      analystVars, initVars, deleteVars, progressVars, writeThroughVars>>
AnalystsOnly == UNCHANGED <<graphVars, taskVars, managerVars, mcpVars, breakerVars, loadVars,
                            batchVars, statusVars, resultVars, summaryVars, debateVars,
                            configVars, wsVars, initVars, deleteVars, progressVars,
                            writeThroughVars>>
InitOnly == UNCHANGED <<graphVars, taskVars, managerVars, mcpVars, breakerVars, loadVars,
                        batchVars, statusVars, resultVars, summaryVars, debateVars, configVars,
                        wsVars, analystVars, deleteVars, progressVars, writeThroughVars>>
DeleteOnly == UNCHANGED <<graphVars, taskVars, managerVars, mcpVars, breakerVars, loadVars,
                          batchVars, statusVars, resultVars, summaryVars, debateVars,
                          configVars, wsVars, analystVars, initVars, progressVars,
                          writeThroughVars>>
ProgressOnly == UNCHANGED <<graphVars, taskVars, managerVars, mcpVars, breakerVars, loadVars,
                            batchVars, statusVars, resultVars, summaryVars, debateVars,
                            configVars, wsVars, analystVars, initVars, deleteVars,
                            writeThroughVars>>
WriteThroughOnly == UNCHANGED <<graphVars, taskVars, managerVars, mcpVars, breakerVars,
                                loadVars, batchVars, statusVars, resultVars, summaryVars,
                                debateVars, configVars, wsVars, analystVars, initVars,
                                deleteVars, progressVars>>
McpInitOnly == UNCHANGED <<graphVars, taskVars, managerVars, breakerVars, loadVars, batchVars,
                           statusVars, resultVars, summaryVars, debateVars, configVars, wsVars,
                           analystVars, deleteVars, progressVars, writeThroughVars>>
StatusDeleteOnly == UNCHANGED <<graphVars, taskVars, managerVars, mcpVars, breakerVars,
                                loadVars, batchVars, resultVars, summaryVars, debateVars,
                                configVars, wsVars, analystVars, initVars, progressVars,
                                writeThroughVars>>

\* ------------------------------------------------------------------ bounds
MaxDebateRounds == 2
MaxRiskRounds == 2
MaxAnalysts == 2

MaxTasks == 2

MaxPriority == 2
MaxRequests == 1
MaxFetches == 2

TickSeconds == 150
MaxClock == 300
MaxRestarts == 4
CooldownTicks == 2
MaxBreakerClock == 3
MaxSelected == 2
MaxSymbols == 11
MaxAnswerLen == 3
MaxMtime == 2
MaxNodes == 2
MaxSlugLen == 2
MaxSaves == 2

\* ------------------------------------------------------------------ program constants
EnvPriority == 10
MAX_RESTART_ATTEMPTS == 3
RESTART_WINDOW_SECONDS == 300
MAX_BATCH_SIZE == 10
STATE_REPORT_MIN == 10
DETAILED_ANALYSIS_MIN == 20

\* ------------------------------------------------------------------ idle subsystems
\* The state of a subsystem that takes no step in a specification.
TaskIds == 1 .. MaxTasks
Users == {"alice", "bob"}

IdleTasks ==
    /\ mem_tasks = [t \in TaskIds |-> "absent"]
    /\ db_tasks = [t \in TaskIds |-> "absent"]
    /\ task_user = [t \in TaskIds |-> "nobody"]
    /\ cancel_flag = [t \in TaskIds |-> FALSE]

\* the servers of the configuration file: finance is enabled and runs over
\* stdio, news is disabled; before initialize_connections none is configured
ServerNames == {"finance", "news"}
ConfiguredServers == {"finance", "news"}
EnabledServers == {"finance"}
StdioServers == {"finance"}

\* the tasks that call tools, and the tools: one of an external MCP server,
\* one local
BreakerTasks == {"task-1", "task-2"}
BreakerTools == {"web_search", "local_quote"}
NoToolCall ==
    [ task |-> "none", tool |-> "none", entry |-> "none", record_before |-> "none",
      tripped_before |-> FALSE, answered |-> FALSE, invoked |-> FALSE, result |-> "none" ]
ClosedRecord == [ state |-> "closed", fail_count |-> 0, opened_at |-> 0 ]

\* a task's breaker manager when the task starts
IdleBreaker ==
    /\ tool_call_records = [ k \in BreakerTasks \X BreakerTools |-> ClosedRecord ]
    /\ breaker_clock = 0
    /\ tripped = {}
    /\ last_call = NoToolCall

\* the summary node has not run
IdleSummary ==
    /\ llm_answer = [ raises |-> FALSE, content |-> <<>> ]
    /\ summary_result = [ outcome |-> "none" ]

\* a stored value that is None, and a stored result without reports
None == [ kind |-> "none" ]
NoReports == [ kind |-> "missing" ]
IdleResult ==
    /\ result_data = [ reports |-> NoReports, state_report |-> None,
                       detailed_analysis |-> None ]
    /\ result_response = [ code |-> 0 ]

\* the task is in no layer and no status has been asked
Absent == [ held |-> FALSE ]
NoStatusResponse == [ code |-> 0 ]
IdleStatus ==
    /\ memory_table = Absent
    /\ analysis_tasks = Absent
    /\ analysis_reports = Absent
    /\ status_response = NoStatusResponse

\* no batch request has been made
IdleBatch ==
    /\ stock_symbols = 0
    /\ task_ids = {}
    /\ batch_response = "none"
    /\ background = "none"
    /\ tasks = <<>>

\* load_tools has not been called
NoLoadRequest == [ cached |-> <<>>, selected_tool_ids |-> {}, include_local |-> FALSE ]
IdleLoad ==
    /\ load_request = NoLoadRequest
    /\ loaded_tools = <<>>

\* no toggle_server call in progress
IdleToggle == [ pc |-> "idle", name |-> "none", enabled |-> FALSE ]

\* MCPToolLoaderFactory.__init__
IdleMcp ==
    /\ initialized = FALSE
    /\ server_configs = {}
    /\ mcp_clients = {}
    /\ mcp_tools = {}
    /\ tracked_pids = {}
    /\ server_status = [ n \in ServerNames |-> "unknown" ]
    /\ restart_counts = [ n \in ServerNames |-> 0 ]
    /\ last_restart_time = [ n \in ServerNames |-> 0 ]
    /\ clock = 0
    /\ restart_log = [ n \in ServerNames |-> <<>> ]
    /\ restart_outcome = "none"
    /\ enabled_servers = {}
    /\ bridge_lock = "free"
    /\ toggle_call = IdleToggle
    /\ reload_pc = "idle"
    /\ children = {}
    /\ closed = FALSE

\* investment_debate_state before the first researcher has spoken
EmptyDebate ==
    [ history |-> <<>>, bull_history |-> <<>>, bear_history |-> <<>>,
      current_response |-> <<>>, count |-> 0, current_round_index |-> 0,
      bull_report_content |-> <<>>, bear_report_content |-> <<>>,
      history_appends |-> 0, report_appends |-> 0 ]
IdleDebate ==
    /\ debate_state = EmptyDebate
    /\ debate_node = "Research Manager"

\* the configuration files as shipped, and nothing loaded
ConfigPaths == {"phase1_agents_config.yaml", "custom.yaml"}
NoLoad == [ path |-> "none" ]
IdleConfig ==
    /\ config_files = [ path \in ConfigPaths |->
                          [ exists |-> TRUE, text |-> "modes_a", mtime |-> 0 ] ]
    /\ config_cache = [ path \in ConfigPaths |-> "none" ]
    /\ config_mtime = [ path \in ConfigPaths |-> -1 ]
    /\ last_load = NoLoad

\* no subscriber ever connects, the task is over
Sockets == {"ws-1", "ws-2", "ws-3"}
IdleWs ==
    /\ ws_pc = [ socket \in Sockets |-> "closed" ]
    /\ ws_subscriptions = {}
    /\ ws_task = [ status |-> "completed", nodes_done |-> 0, persisted |-> TRUE ]

\* no analyst node has run
IdleAnalysts ==
    /\ enabled_slugs = << <<"market", "-analyst">>, <<"news", "-analyst">> >>
    /\ analysts_run = {1, 2}
    /\ key_writers = {}
    /\ reports_dict = << >>

\* no initialize_connections call is made step by step
InitCallers == {"startup", "request-1", "request-2", "request-3"}
IdleInit ==
    /\ init_pc = [ c \in InitCallers |-> "idle" ]
    /\ init_pending = {}
    /\ dial_count = [ n \in ServerNames |-> 0 ]

\* the delete endpoint has not been called for the task
NoDelete == [ success |-> FALSE, deleted_count |-> 0 ]
IdleDelete == delete_response = NoDelete

\* no analysis runs
ProgressTasks == {"task-1", "task-2"}
IdleProgress ==
    /\ run_pc = [ task \in ProgressTasks |-> "done" ]
    /\ pm_callback = "none"
    /\ nodes_started = [ task \in ProgressTasks |-> 0 ]
    /\ deliveries = {}

\* nothing is written through
IdleWriteThrough ==
    /\ quote_rows = <<>>
    /\ saved_bars = {}
    /\ saves_done = 0

\* the subsystems below take no step
IdleLater ==
    /\ IdleBreaker
    /\ IdleLoad
    /\ IdleBatch
    /\ IdleStatus
    /\ IdleResult
    /\ IdleSummary
    /\ IdleDebate
    /\ IdleConfig
    /\ IdleWs
    /\ IdleAnalysts
    /\ IdleInit
    /\ IdleDelete
    /\ IdleProgress
    /\ IdleWriteThrough

IdleGraph ==
    /\ max_debate_rounds = 1
    /\ max_risk_discuss_rounds = 1
    /\ selected_analysts = <<"market-analyst">>
    /\ node = "END"
    /\ analyst_index = 1
    /\ investment_debate_state =
           [ current_response |-> <<>>, count |-> 0, current_round_index |-> 0 ]
    /\ risk_debate_state = [ count |-> 0, latest_speaker |-> <<>> ]
    /\ spoken = [ r \in {"bull", "bear", "risky", "safe", "neutral"} |-> 0 ]
    /\ progress_percent = 0

\* ------------------------------------------------------------------ helpers
RECURSIVE InjectiveSeqs(_, _)
\* the sequences of n distinct elements of S
InjectiveSeqs(S, n) ==
    IF n = 0 THEN { <<>> }
    ELSE UNION { { Append(q, x) : x \in S \ { q[i] : i \in DOMAIN q } }
                 : q \in InjectiveSeqs(S, n - 1) }

\* ------------------------------------------------------------------ data source manager
\* tradingagents/dataflows/manager.py.  A stock code and a bar's time are
\* token sequences, so that split('.') and replace('-', '') are computed.
CODE_SZ == <<"000001", ".", "SZ">>
CODE_SH == <<"000001", ".", "SH">>
Codes == {CODE_SZ, CODE_SH}
Periods == {"day", "week"}

TIME_DASH == <<"2024", "-", "01", "-", "02">>
TIME_SLASH == <<"2024", "/", "01", "/", "02">>
TIME_EMPTY == <<>>

\* what an adapter's method can do: raise, return nothing (None, [] or an
\* empty frame), or return rows
Raises == [kind |-> "raise", items |-> <<>>]
Empty == [kind |-> "empty", items |-> <<>>]
KlineResults ==
    { [kind |-> "items", items |-> << [time |-> TIME_DASH, close |-> 10] >>],
      [kind |-> "items", items |-> << [time |-> TIME_SLASH, close |-> 11],
                                      [time |-> TIME_EMPTY, close |-> 12] >>] }
OtherResults == { [kind |-> "items", items |-> << [time |-> TIME_EMPTY, close |-> 0] >>] }
Responses(op) ==
    {Raises, Empty} \cup (IF op = "kline" THEN KlineResults ELSE OtherResults)

\* DataSourceManager.__init__: the adapters in construction order
AdapterNames == <<"tushare", "akshare", "baostock">>
AdapterSet == { AdapterNames[i] : i \in DOMAIN AdapterNames }

get_default_priority(name) ==
    CASE name = "tushare" -> 3
      [] name = "akshare" -> 2
      [] OTHER -> 1

\* _apply_env_or_default_priority: defaults, and DEFAULT_CHINA_DATA_SOURCE promoted
apply_env_or_default_priority(default_source) ==
    [ n \in AdapterSet |->
        IF n = default_source THEN EnvPriority ELSE get_default_priority(n) ]

\* _load_priority_from_database: groupings[n] is the priority of n's row in
\* datasource_groupings, 0 when it has no row
load_priority_from_database(groupings, default_source) ==
    IF \E n \in AdapterSet : groupings[n] # 0
    THEN [ n \in AdapterSet |->
             IF groupings[n] # 0 THEN groupings[n] ELSE get_default_priority(n) ]
    ELSE apply_env_or_default_priority(default_source)

RECURSIVE insert_ascending(_, _, _)
insert_ascending(sorted, name, priority) ==
    IF sorted = <<>> THEN << name >>
    ELSE IF priority[Head(sorted)] <= priority[name]
         THEN << Head(sorted) >> \o insert_ascending(Tail(sorted), name, priority)
         ELSE << name >> \o sorted

RECURSIVE sort_ascending(_, _)
sort_ascending(names, priority) ==
    IF names = <<>> THEN <<>>
    ELSE insert_ascending(sort_ascending(SubSeq(names, 1, Len(names) - 1), priority),
                          names[Len(names)], priority)

RECURSIVE insert_by_priority(_, _, _)
\* name goes after every element whose priority is not lower (the sort is stable)
insert_by_priority(sorted, name, priority) ==
    IF sorted = <<>> THEN << name >>
    ELSE IF priority[Head(sorted)] >= priority[name]
         THEN << Head(sorted) >> \o insert_by_priority(Tail(sorted), name, priority)
         ELSE << name >> \o sorted

RECURSIVE sort_by_priority(_, _)
\* self.adapters.sort(key=lambda x: x.priority, reverse=True)
sort_by_priority(names, priority) ==
    IF names = <<>> THEN <<>>
    ELSE insert_by_priority(sort_by_priority(SubSeq(names, 1, Len(names) - 1), priority),
                            names[Len(names)], priority)

\* the manager after __init__: [name, priority] records, sorted
construct_adapters(groupings, default_source) ==
    LET priority == load_priority_from_database(groupings, default_source)
        order == sort_by_priority(AdapterNames, priority)
    IN [ i \in DOMAIN order |-> [name |-> order[i], priority |-> priority[order[i]]] ]

\* get_available_adapters: is_available() of every adapter, in order; an
\* exception of is_available() is not caught here
is_available_raises(avail) == \E i \in DOMAIN adapters : avail[adapters[i].name] = "raise"

get_available_adapters(avail) ==
    LET open == SelectSeq(adapters, LAMBDA a : avail[a.name] = "yes")
    IN [ i \in DOMAIN open |-> open[i].name ]

\* preferred + others of get_stock_list_with_fallback / get_daily_basic_with_fallback
reorder_preferred(available, preferred_sources) ==
    LET listed == { preferred_sources[i] : i \in DOMAIN preferred_sources }
        here == { available[i] : i \in DOMAIN available }
    IN SelectSeq(preferred_sources, LAMBDA n : n \in here)
         \o SelectSeq(available, LAMBDA n : n \notin listed)

PreferredSources == { <<>>, <<"baostock", "akshare">> }
TakesPreferred(op) == op \in {"stock_list", "daily_basic"}
Operations == {"stock_list", "daily_basic", "realtime_quotes", "kline", "news"}

RECURSIVE symbol_of(_)
\* code.split('.')[0]
symbol_of(code) ==
    IF code = <<>> \/ Head(code) = "." THEN <<>>
    ELSE << Head(code) >> \o symbol_of(Tail(code))

\* str(item.get('time', '')).replace('-', '').replace('/', '')
trade_date_of(item) == SelectSeq(item.time, LAMBDA c : c \notin {"-", "/"})

\* filter_query of an UpdateOne
filter_query(doc) == << doc.symbol, doc.trade_date, doc.data_source, doc.period >>

\* the documents _save_kline_to_db builds, one per item that has a trade date
kline_operations(code, items, source, period, utcnow) ==
    LET dated == SelectSeq(items, LAMBDA item : trade_date_of(item) # <<>>)
    IN [ i \in DOMAIN dated |->
           [ symbol |-> symbol_of(code),
             trade_date |-> trade_date_of(dated[i]),
             data_source |-> source,
             period |-> period,
             close |-> dated[i].close,
             updated_at |-> utcnow ] ]

InsertOne(collection, doc) == Append(collection, doc)

\* UpdateOne(filter_query, {"$set": doc}, upsert=True) on a collection
UpdateOne(collection, doc) ==
    LET hits == { i \in DOMAIN collection : filter_query(collection[i]) = filter_query(doc) }
    IN IF hits = {}
       THEN Append(collection, doc)
       ELSE LET first == CHOOSE i \in hits : \A j \in hits : i <= j
            IN [collection EXCEPT ![first] = doc]

RECURSIVE bulk_write(_, _, _)
\* collection.bulk_write(operations, ordered=False): the operations that the
\* server applied, in the order it applied them
bulk_write(collection, operations, applied) ==
    IF applied = <<>> THEN collection
    ELSE bulk_write(UpdateOne(collection, operations[Head(applied)]), operations,
                    Tail(applied))

\* the outcomes of one bulk_write: every operation applied in some order, or
\* an error after any of them were
WriteOutcomes(operations) ==
    LET n == Len(operations)
    IN { [ok |-> TRUE, applied |-> q] : q \in InjectiveSeqs(1 .. n, n) }
         \cup { [ok |-> FALSE, applied |-> q] :
                  q \in UNION { InjectiveSeqs(1 .. n, k) : k \in 0 .. n } }

IdleCall ==
    [ pc |-> "idle", op |-> "none", code |-> <<>>, period |-> "none",
      preferred |-> <<>>, available |-> <<>>, calls |-> <<>>, result |-> <<>>, source |-> "none",
      raised |-> FALSE, saved |-> "none", upserted_count |-> 0, modified_count |-> 0 ]

\* the manager built with no row in datasource_groupings and no environment
\* override, with the given number of requests still to come
DefaultManager(requests) ==
    /\ adapters = construct_adapters([ n \in AdapterSet |-> 0 ], "none")
    /\ stock_daily_quotes = <<>>
    /\ now = 0
    /\ calls_left = requests
    /\ call = IdleCall

IdleManager == DefaultManager(0)

\* the agent graph, the tasks, the MCP loader and the data source manager take no step
IdleCore == IdleGraph /\ IdleTasks /\ IdleMcp /\ IdleManager

\* the adapters the loop has not tried yet
Untried == SubSeq(call.available, Len(call.calls) + 1, Len(call.available))

\* the entry of a *_with_fallback operation
enter_fallback(op, code, period, preferred_sources) ==
    /\ call.pc \in {"idle", "done"}
    /\ calls_left > 0
    /\ calls_left' = calls_left - 1
    /\ now' = IF op = "kline" THEN now + 1 ELSE now
    /\ call' = [IdleCall EXCEPT !.pc = "entered", !.op = op, !.code = code,
                                !.period = period, !.preferred = preferred_sources]
    /\ UNCHANGED <<adapters, stock_daily_quotes>>
    /\ ManagerOnly

\* available_adapters = self.get_available_adapters(), outside any try; then
\* the optional reordering, and the return when there is nothing to try
list_available_adapters(avail) ==
    /\ call.pc = "entered"
    /\ LET listed == get_available_adapters(avail)
           available == IF TakesPreferred(call.op) /\ call.preferred # <<>>
                        THEN reorder_preferred(listed, call.preferred)
                        ELSE listed
       IN call' = IF is_available_raises(avail)
                  THEN [call EXCEPT !.pc = "done", !.raised = TRUE]
                  ELSE [call EXCEPT !.pc = IF available = <<>> THEN "done" ELSE "loop",
                                    !.available = available]
    /\ UNCHANGED <<adapters, stock_daily_quotes, now, calls_left>>
    /\ ManagerOnly

\* one turn of the loop: the next adapter is called; a raise or an empty
\* result moves on (and ends with the null pair after the last adapter)
adapter_fails(response) ==
    /\ call.pc = "loop"
    /\ response.kind \in {"raise", "empty"}
    /\ LET name == Head(Untried)
           calls == Append(call.calls, [name |-> name, response |-> response])
       IN call' = [call EXCEPT !.calls = calls,
                               !.pc = IF Len(calls) = Len(call.available)
                                      THEN "done" ELSE "loop"]
    /\ UNCHANGED <<adapters, stock_daily_quotes, now, calls_left>>
    /\ ManagerOnly

\* one turn of the loop: the next adapter returns rows; a kline result is
\* written through (_save_kline_to_db, whose exceptions are logged and
\* dropped) and the rows are returned with the adapter's name
adapter_returns(response) ==
    /\ call.pc = "loop"
    /\ response \in Responses(call.op)
    /\ response.kind = "items"
    /\ LET name == Head(Untried)
           calls == Append(call.calls, [name |-> name, response |-> response])
           operations == IF call.op = "kline"
                         THEN kline_operations(call.code, response.items, name,
                                               call.period, now)
                         ELSE <<>>
           returned == [call EXCEPT !.calls = calls, !.pc = "done",
                                    !.result = response.items, !.source = name]
       IN IF operations = <<>>
          THEN /\ call' = [returned EXCEPT
                             !.saved = IF call.op = "kline" THEN "ok" ELSE "none"]
               /\ UNCHANGED stock_daily_quotes
          ELSE \E write \in WriteOutcomes(operations) :
               /\ stock_daily_quotes' =
                      bulk_write(stock_daily_quotes, operations, write.applied)
               /\ call' = [returned EXCEPT
                             !.saved = IF write.ok THEN "ok" ELSE "failed",
                             !.upserted_count =
                                 Len(stock_daily_quotes') - Len(stock_daily_quotes),
                             !.modified_count =
                                 Cardinality({ i \in DOMAIN stock_daily_quotes :
                                     stock_daily_quotes'[i] # stock_daily_quotes[i] })]
    /\ UNCHANGED <<adapters, now, calls_left>>
    /\ ManagerOnly

\* get_kline_with_fallback, up to its loop
get_kline_with_fallback(code, period) ==
    enter_fallback("kline", code, period, <<>>)

\* get_stock_list_with_fallback, get_daily_basic_with_fallback,
\* get_realtime_quotes_with_fallback and get_news_with_fallback, up to their loops
get_other_with_fallback(op, preferred_sources) ==
    /\ op # "kline"
    /\ TakesPreferred(op) \/ preferred_sources = <<>>
    /\ enter_fallback(op, <<>>, "none", preferred_sources)

Availabilities == [AdapterSet -> {"yes", "no", "raise"}]

InitManager(requests) ==
    /\ \E groupings \in [AdapterSet -> 0 .. MaxPriority],
          default_source \in AdapterSet \cup {"none"} :
            adapters = construct_adapters(groupings, default_source)
    /\ stock_daily_quotes = <<>>
    /\ now = 0
    /\ calls_left = requests
    /\ call = IdleCall

NextManager ==
    \/ \E code \in Codes, period \in Periods : get_kline_with_fallback(code, period)
    \/ \E op \in Operations, preferred_sources \in PreferredSources :
            get_other_with_fallback(op, preferred_sources)
    \/ \E avail \in Availabilities : list_available_adapters(avail)
    \/ \E response \in {Raises, Empty} : adapter_fails(response)
    \/ \E response \in KlineResults \cup OtherResults : adapter_returns(response)

StartManager == InitManager(MaxRequests) /\ IdleGraph /\ IdleTasks /\ IdleMcp /\ IdleLater
SpecManager == StartManager /\ [][NextManager]_vars

NextQuotes ==
    \/ \E code \in Codes, period \in Periods : get_kline_with_fallback(code, period)
    \/ \E avail \in Availabilities : list_available_adapters(avail)
    \/ \E response \in {Raises, Empty} : adapter_fails(response)
    \/ \E response \in KlineResults : adapter_returns(response)

StartQuotes == DefaultManager(MaxFetches) /\ IdleGraph /\ IdleTasks /\ IdleMcp /\ IdleLater
SpecQuotes == StartQuotes /\ [][NextQuotes]_vars

\* ------------------------------------------------------------------ claims: data source manager
PriorityOf(name) ==
    LET i == CHOOSE k \in DOMAIN adapters : adapters[k].name = name
    IN adapters[i].priority

Failed(entry) == entry.response.kind \in {"raise", "empty"}

\* C6: in a kline request the adapters are called in non-increasing effective
\* priority, each of them available and called once; an adapter is called only
\* after every available adapter of higher priority has returned empty or
\* raised; and an adapter that returns rows is the last one called: its rows
\* and its name are what the call returns.
C6_PriorityFallback ==
    (call.op = "kline" /\ call.pc \in {"loop", "done"}) =>
        LET calls == call.calls
            available == { call.available[i] : i \in DOMAIN call.available }
        IN /\ \A i, j \in DOMAIN calls :
                  i < j => /\ PriorityOf(calls[i].name) >= PriorityOf(calls[j].name)
                           /\ calls[i].name # calls[j].name
           /\ \A j \in DOMAIN calls :
                  /\ calls[j].name \in available
                  /\ \A n \in available :
                        PriorityOf(n) > PriorityOf(calls[j].name) =>
                            \E i \in 1 .. (j - 1) : calls[i].name = n /\ Failed(calls[i])
           /\ \A i \in DOMAIN calls :
                  ~Failed(calls[i]) =>
                      /\ i = Len(calls)
                      /\ call.pc = "done"
                      /\ call.result = calls[i].response.items
                      /\ call.source = calls[i].name
           /\ (call.pc = "done" /\ call.source # "none") =>
                  (calls # <<>> /\ ~Failed(calls[Len(calls)]))

\* a kline request that fell through two adapters of a manager whose
\* priorities were overridden, and returned the third adapter's rows
C6_Witness ==
    /\ call.op = "kline"
    /\ call.pc = "done"
    /\ Len(call.calls) = 3
    /\ call.source = call.calls[3].name
    /\ call.result # <<>>
    /\ adapters[1].name # "tushare"

\* C7 (as claimed): no fallback operation ends with an exception, and one in
\* which every available adapter returned empty or raised ends with the null
\* pair.
C7_NoExceptionEscapes ==
    call.pc = "done" =>
        /\ ~call.raised
        /\ (\A i \in DOMAIN call.calls : Failed(call.calls[i])) =>
               (call.result = <<>> /\ call.source = "none")

\* C8 (as claimed): when get_kline_with_fallback returns rows, every returned
\* bar is in the quote store under the returning adapter's name and the
\* requested period, and nothing was written under another adapter's name.
C8_EveryReturnedBarStored ==
    (call.op = "kline" /\ call.pc = "done" /\ call.result # <<>>) =>
        /\ \A k \in DOMAIN call.result :
              \E i \in DOMAIN stock_daily_quotes :
                  LET row == stock_daily_quotes[i]
                  IN /\ row.symbol = symbol_of(call.code)
                     /\ row.trade_date = trade_date_of(call.result[k])
                     /\ row.data_source = call.source
                     /\ row.period = call.period
        /\ \A i \in DOMAIN stock_daily_quotes :
              stock_daily_quotes[i].updated_at = now =>
                  stock_daily_quotes[i].data_source = call.source

\* C9: the quote store never holds two rows with the same (symbol,
\* trade_date, data_source, period); every step keeps every row in its place
\* under its key with an updated_at that is not earlier than before, so a
\* repeated fetch rewrites the row and no step deletes one.
C9_OneRowPerKey ==
    [][ /\ \A i, j \in DOMAIN stock_daily_quotes' :
              filter_query(stock_daily_quotes'[i]) = filter_query(stock_daily_quotes'[j])
                  => i = j
        /\ Len(stock_daily_quotes') >= Len(stock_daily_quotes)
        /\ \A i \in DOMAIN stock_daily_quotes :
              /\ filter_query(stock_daily_quotes'[i]) = filter_query(stock_daily_quotes[i])
              /\ stock_daily_quotes'[i].updated_at >= stock_daily_quotes[i].updated_at
      ]_vars

\* a second fetch of the same bar rewrote the only row of the store
C9_Witness ==
    /\ call.op = "kline"
    /\ call.pc = "done"
    /\ call.saved = "ok"
    /\ call.modified_count = 1
    /\ call.upserted_count = 0
    /\ Len(stock_daily_quotes) = 1
    /\ stock_daily_quotes[1].updated_at = now
    /\ now = 2

\* ------------------------------------------------------------------ texts
Tok(w) == [w |-> w, n |-> 0]
RoundTok(i) == [w |-> "round", n |-> i]
NL == Tok("\n")

\* str.startswith(word)
StartsWith(s, w) == Len(s) > 0 /\ s[1] = Tok(w)
\* word in str
Contains(s, w) == \E i \in DOMAIN s : s[i] = Tok(w)

RECURSIVE JoinLines(_)
\* '\n'.join(lines)
JoinLines(lines) ==
    IF Len(lines) = 0 THEN <<>>
    ELSE IF Len(lines) = 1 THEN lines[1]
    ELSE lines[1] \o <<NL>> \o JoinLines(Tail(lines))

\* bull_node's cleaning of the model's answer: level-one headings, and level-two
\* headings that name the report, are dropped; the rest is joined again.
IsDroppedLine(line) ==
    \/ StartsWith(line, "# ")
    \/ StartsWith(line, "## ") /\ Contains(line, "report_title")

RECURSIVE KeptLines(_)
KeptLines(lines) ==
    IF Len(lines) = 0 THEN <<>>
    ELSE IF IsDroppedLine(lines[1]) THEN KeptLines(Tail(lines))
    ELSE <<lines[1]>> \o KeptLines(Tail(lines))

CleanContent(lines) == JoinLines(KeptLines(lines))

\* The answers the model may give a researcher: lines of tokens.  "bull_mark_cn"
\* and "bear_mark_cn" are the Chinese role marks the router searches for.
LLMAnswers ==
    { << <<Tok("text")>> >>,
      << <<Tok("# "), Tok("bull_mark_cn")>>, <<Tok("text")>> >>,
      << <<Tok("text"), Tok("bull_mark_cn"), Tok("text")>> >>,
      << <<Tok("text")>>, <<Tok("text"), Tok("bear_mark_cn")>> >> }

\* ------------------------------------------------------------------ agent records
\* The analyst records of phase 1 (slug, name); the icon is what
\* _get_analyst_icon finds by keyword in the slug.
AgentRecords ==
    { [slug |-> "market-analyst", name |-> "market"],
      [slug |-> "news-analyst", name |-> "news"],
      [slug |-> "fundamentals-analyst", name |-> "fundamentals"] }
AgentSlugs == { a.slug : a \in AgentRecords }
get_agent_config(slug) == CHOOSE a \in AgentRecords : a.slug = slug

get_analyst_icon(slug) ==
    CASE slug = "news-analyst" -> "news_icon"
      [] slug = "fundamentals-analyst" -> "fundamental_icon"
      [] slug = "market-analyst" -> "market_icon"
      [] OTHER -> "robot_icon"

\* f"{icon} {name}"
AnalystDisplayName(slug) ==
    [icon |-> get_analyst_icon(slug), name |-> get_agent_config(slug).name]

\* build_node_mapping: the fixed nodes' display names
FixedDisplayName(n) ==
    CASE n = "Bull Researcher" -> [icon |-> "bull_icon", name |-> "bull researcher"]
      [] n = "Bear Researcher" -> [icon |-> "bear_icon", name |-> "bear researcher"]
      [] n = "Research Manager" -> [icon |-> "manager_icon", name |-> "research manager"]
      [] n = "Trader" -> [icon |-> "trader_icon", name |-> "trader decision"]
      [] n = "Risky Analyst" -> [icon |-> "fire_icon", name |-> "risky assessment"]
      [] n = "Safe Analyst" -> [icon |-> "shield_icon", name |-> "safe assessment"]
      [] n = "Neutral Analyst" -> [icon |-> "scale_icon", name |-> "neutral assessment"]
      [] n = "Risk Judge" -> [icon |-> "target_icon", name |-> "risk manager"]
      [] n = "Summary" -> [icon |-> "market_icon", name |-> "generate report"]

FixedNodes == {"Bull Researcher", "Bear Researcher", "Research Manager", "Trader",
               "Risky Analyst", "Safe Analyst", "Neutral Analyst", "Risk Judge", "Summary"}

\* round(a / b) to the nearest integer, halves to even (Python's round)
RoundHalfEven(a, b) ==
    LET q == a \div b
        r == a % b
    IN  IF 2 * r < b THEN q
        ELSE IF 2 * r > b THEN q + 1
        ELSE IF q % 2 = 0 THEN q ELSE q + 1

\* round(10 + (i + 1) * (40 / analyst_count), 1), in hundredths; i counts from 0
AnalystProgress(i, analyst_count) ==
    10 * RoundHalfEven(100 * analyst_count + (i + 1) * 400, analyst_count)

\* the fixed anchors of the non-analyst nodes, in hundredths
FixedProgress(n) ==
    CASE n = "Bull Researcher" -> 5125
      [] n = "Bear Researcher" -> 5750
      [] n = "Research Manager" -> 7000
      [] n = "Trader" -> 7800
      [] n = "Risky Analyst" -> 8175
      [] n = "Safe Analyst" -> 8550
      [] n = "Neutral Analyst" -> 8925
      [] n = "Risk Judge" -> 9300
      [] n = "Summary" -> 9700

\* build_progress_map(selected_analysts): display name -> percent.  The analysts
\* are entered first, in order (a later entry of the same key wins), then the
\* fixed anchors are written over them.
build_progress_map(selected) ==
    LET fixed == { FixedDisplayName(n) : n \in FixedNodes }
        analysts == { AnalystDisplayName(selected[i]) : i \in DOMAIN selected }
        LastIndex(d) ==
            CHOOSE i \in DOMAIN selected :
                /\ AnalystDisplayName(selected[i]) = d
                /\ \A j \in DOMAIN selected :
                       AnalystDisplayName(selected[j]) = d => j <= i
    IN  [ d \in fixed \cup analysts |->
            IF d \in fixed
            THEN FixedProgress(CHOOSE n \in FixedNodes : FixedDisplayName(n) = d)
            ELSE AnalystProgress(LastIndex(d) - 1, Len(selected)) ]

\* The task's progress callback: the percent of the display name in the progress
\* map, the last value when the name is not in the map.
progress_callback(display_name) ==
    LET progress_map == build_progress_map(selected_analysts)
    IN  IF display_name \in DOMAIN progress_map
        THEN progress_map[display_name]
        ELSE progress_percent

\* ProgressManager.node_start(display_name): the callback is invoked at once.
node_start(display_name) == progress_callback(display_name)

\* ------------------------------------------------------------------ routing
\* ConditionalLogic.should_continue_debate with ">" for ">="
should_continue_debate_late(state) ==
    IF state.count > 2 * (max_debate_rounds + 1) THEN "Research Manager"
    ELSE IF \/ StartsWith(state.current_response, "Bull")
            \/ Contains(state.current_response, "bull_mark_cn")
         THEN "Bear Researcher"
    ELSE "Bull Researcher"

\* ConditionalLogic.should_continue_debate
should_continue_debate(state) ==
    LET current_count == state.count
        max_count == 2 * (max_debate_rounds + 1)
        latest_speaker == state.current_response
        is_bull == \/ StartsWith(latest_speaker, "Bull")
                   \/ Contains(latest_speaker, "bull_mark_cn")
        is_bear == \/ StartsWith(latest_speaker, "Bear")
                   \/ Contains(latest_speaker, "bear_mark_cn")
    IN  IF current_count >= max_count THEN "Research Manager"
        ELSE IF is_bull THEN "Bear Researcher"
        ELSE IF is_bear THEN "Bull Researcher"
        ELSE "Bull Researcher"

\* ConditionalLogic.should_continue_risk_analysis with the rotation's last two
\* branches exchanged
should_continue_risk_analysis_swapped(state) ==
    IF state.count >= 3 * max_risk_discuss_rounds THEN "Risk Judge"
    ELSE IF StartsWith(state.latest_speaker, "Risky") THEN "Safe Analyst"
    ELSE IF StartsWith(state.latest_speaker, "Safe") THEN "Risky Analyst"
    ELSE "Neutral Analyst"

\* ConditionalLogic.should_continue_risk_analysis
should_continue_risk_analysis(state) ==
    LET current_count == state.count
        max_count == 3 * max_risk_discuss_rounds
        latest_speaker == state.latest_speaker
    IN  IF current_count >= max_count THEN "Risk Judge"
        ELSE IF StartsWith(latest_speaker, "Risky") THEN "Safe Analyst"
        ELSE IF StartsWith(latest_speaker, "Safe") THEN "Neutral Analyst"
        ELSE "Risky Analyst"

\* ------------------------------------------------------------------ graph nodes
Speak(role) == [spoken EXCEPT ![role] = @ + 1]

\* One analyst node of stage A; the next analyst follows, the Bull Researcher
\* after the last one.
analyst_node ==
    /\ node = "Analyst"
    /\ progress_percent' = node_start(AnalystDisplayName(selected_analysts[analyst_index + 1]))
    /\ analyst_index' = analyst_index + 1
    /\ node' = IF analyst_index + 1 < Len(selected_analysts)
               THEN "Analyst" ELSE "Bull Researcher"
    /\ UNCHANGED <<max_debate_rounds, max_risk_discuss_rounds, selected_analysts,
                   investment_debate_state, risk_debate_state, spoken>>
    /\ GraphOnly

\* bull_node, followed by the conditional edge should_continue_debate.  A
\* missing bull-researcher record raises and ends the run.
bull_node ==
    /\ node = "Bull Researcher"
    /\ progress_percent' = node_start(FixedDisplayName("Bull Researcher"))
    /\ \E base_prompt \in {"", "prompt"} :
         IF base_prompt = ""
         THEN /\ node' = "Failed"
              /\ UNCHANGED <<investment_debate_state, spoken>>
         ELSE \E answer \in LLMAnswers :
                LET current_round_index == investment_debate_state.current_round_index
                    content == CleanContent(answer)
                    argument_prefix == <<Tok("# "), Tok("bull_mark_cn"),
                                         RoundTok(current_round_index)>>
                    argument == argument_prefix \o <<NL>> \o content
                    new_investment_debate_state ==
                        [ current_response |-> argument,
                          count |-> investment_debate_state.count + 1,
                          current_round_index |->
                              (investment_debate_state.count + 1) \div 2 ]
                IN  /\ investment_debate_state' = new_investment_debate_state
                    /\ spoken' = Speak("bull")
                    /\ node' = should_continue_debate(new_investment_debate_state)
    /\ UNCHANGED <<max_debate_rounds, max_risk_discuss_rounds, selected_analysts,
                   analyst_index, risk_debate_state>>
    /\ GraphOnly

\* The Bear Researcher's node, the mirror of bull_node.
bear_node ==
    /\ node = "Bear Researcher"
    /\ progress_percent' = node_start(FixedDisplayName("Bear Researcher"))
    /\ \E answer \in LLMAnswers :
         LET current_round_index == investment_debate_state.current_round_index
             content == CleanContent(answer)
             argument_prefix == <<Tok("# "), Tok("bear_mark_cn"),
                                  RoundTok(current_round_index)>>
             argument == argument_prefix \o <<NL>> \o content
             new_investment_debate_state ==
                 [ current_response |-> argument,
                   count |-> investment_debate_state.count + 1,
                   current_round_index |->
                       (investment_debate_state.count + 1) \div 2 ]
         IN  /\ investment_debate_state' = new_investment_debate_state
             /\ spoken' = Speak("bear")
             /\ node' = should_continue_debate(new_investment_debate_state)
    /\ UNCHANGED <<max_debate_rounds, max_risk_discuss_rounds, selected_analysts,
                   analyst_index, risk_debate_state>>
    /\ GraphOnly

\* A node that only reports its start and hands over to the next node.
PassThrough(n, next) ==
    /\ node = n
    /\ progress_percent' = node_start(FixedDisplayName(n))
    /\ node' = next
    /\ UNCHANGED <<max_debate_rounds, max_risk_discuss_rounds, selected_analysts,
                   analyst_index, investment_debate_state, risk_debate_state, spoken>>
    /\ GraphOnly

research_manager_node == PassThrough("Research Manager", "Trader")
trader_node == PassThrough("Trader", "Risky Analyst")
risk_judge_node == PassThrough("Risk Judge", "Summary")
summary_node_step == PassThrough("Summary", "END")

\* A risk debater's node, followed by the conditional edge
\* should_continue_risk_analysis.
RiskDebater(n, speaker, role) ==
    /\ node = n
    /\ progress_percent' = node_start(FixedDisplayName(n))
    /\ LET new_risk_debate_state ==
               [ count |-> risk_debate_state.count + 1,
                 latest_speaker |-> <<Tok(speaker)>> ]
       IN  /\ risk_debate_state' = new_risk_debate_state
           /\ node' = should_continue_risk_analysis(new_risk_debate_state)
    /\ spoken' = Speak(role)
    /\ UNCHANGED <<max_debate_rounds, max_risk_discuss_rounds, selected_analysts,
                   analyst_index, investment_debate_state>>
    /\ GraphOnly

risky_node == RiskDebater("Risky Analyst", "Risky", "risky")
safe_node == RiskDebater("Safe Analyst", "Safe", "safe")
neutral_node == RiskDebater("Neutral Analyst", "Neutral", "neutral")

InitGraph ==
    /\ max_debate_rounds \in 0 .. MaxDebateRounds
    /\ max_risk_discuss_rounds \in 1 .. MaxRiskRounds
    /\ selected_analysts \in UNION { InjectiveSeqs(AgentSlugs, n) : n \in 1 .. MaxAnalysts }
    /\ node = "Analyst"
    /\ analyst_index = 0
    /\ investment_debate_state =
           [ current_response |-> <<>>, count |-> 0, current_round_index |-> 0 ]
    /\ risk_debate_state = [ count |-> 0, latest_speaker |-> <<>> ]
    /\ spoken = [ r \in {"bull", "bear", "risky", "safe", "neutral"} |-> 0 ]
    /\ progress_percent = 0

NextGraph ==
    \/ analyst_node
    \/ bull_node
    \/ bear_node
    \/ research_manager_node
    \/ trader_node
    \/ risky_node
    \/ safe_node
    \/ neutral_node
    \/ risk_judge_node
    \/ summary_node_step

StartGraph == InitGraph /\ IdleTasks /\ IdleManager /\ IdleMcp /\ IdleLater
SpecGraph == StartGraph /\ [][NextGraph]_vars

\* ------------------------------------------------------------------ claims: agent graph
Researchers == {"Bull Researcher", "Bear Researcher"}
RiskDebaters == {"Risky Analyst", "Safe Analyst", "Neutral Analyst"}
AfterDebate == {"Research Manager", "Trader", "Risk Judge", "Summary", "END"} \cup RiskDebaters
AfterRiskDebate == {"Risk Judge", "Summary", "END"}

\* C1: the debate count is the number of researcher utterances; a researcher is
\* the next node only while count < 2 * (max_debate_rounds + 1), and once the
\* Research Manager has been reached exactly 2 * (max_debate_rounds + 1)
\* utterances have been made and no further one is ever made.
C1_DebateEndsAtMaxCount ==
    LET max_count == 2 * (max_debate_rounds + 1)
        utterances == spoken["bull"] + spoken["bear"]
    IN  /\ investment_debate_state.count = utterances
        /\ node \in Researchers => investment_debate_state.count < max_count
        /\ node \in AfterDebate => utterances = max_count

C1_Witness ==
    /\ node = "Research Manager"
    /\ max_debate_rounds = 1
    /\ investment_debate_state.count = 4

\* C2 (as claimed): while the debate has not terminated, the speaker after the
\* Bull Researcher is the Bear Researcher and the speaker after the Bear
\* Researcher is the Bull Researcher, whatever the utterance contains.
C2_SpeakersAlternate ==
    [][ /\ (node = "Bull Researcher" /\ node' \in Researchers) => node' = "Bear Researcher"
        /\ (node = "Bear Researcher" /\ node' \in Researchers) => node' = "Bull Researcher"
      ]_vars

C5_ProgressNeverDecreases == [][progress_percent' >= progress_percent]_vars

\* ------------------------------------------------------------------ analysis tasks
Terminal == {"completed", "failed", "cancelled"}

\* memory_manager.update_task_status: the status of a resident task is set; an
\* update for a task that is already terminal is dropped.
update_task_status(table, task_id, status) ==
    IF table[task_id] = "absent" \/ table[task_id] \in Terminal
    THEN table
    ELSE [table EXCEPT ![task_id] = status]

\* db.analysis_tasks.update_one({"task_id": task_id}, {"$set": {"status": status}})
update_one_status(collection, task_id, status) ==
    IF collection[task_id] = "absent"
    THEN collection
    ELSE [collection EXCEPT ![task_id] = status]

\* create_analysis_task: a pending record in the in-memory table and in analysis_tasks
create_analysis_task(t, u) ==
    /\ task_user[t] = "nobody"
    /\ \A o \in TaskIds : o < t => task_user[o] # "nobody"
    /\ task_user' = [task_user EXCEPT ![t] = u]
    /\ mem_tasks' = [mem_tasks EXCEPT ![t] = "pending"]
    /\ db_tasks' = [db_tasks EXCEPT ![t] = "pending"]
    /\ UNCHANGED cancel_flag
    /\ TasksOnly

\* execute_analysis_background: the task starts running
start_task(t) ==
    /\ mem_tasks[t] = "pending"
    /\ mem_tasks' = update_task_status(mem_tasks, t, "running")
    /\ db_tasks' = IF db_tasks[t] = "pending"
                   THEN update_one_status(db_tasks, t, "running") ELSE db_tasks
    /\ UNCHANGED <<task_user, cancel_flag>>
    /\ TasksOnly

\* execute_analysis_background: the run ends; a requested cancellation observed
\* between nodes ends it as cancelled.
finish_task(t, outcome) ==
    /\ mem_tasks[t] = "running"
    /\ outcome = "cancelled" <=> cancel_flag[t]
    /\ mem_tasks' = update_task_status(mem_tasks, t, outcome)
    /\ db_tasks' = IF db_tasks[t] = "running"
                   THEN update_one_status(db_tasks, t, outcome) ELSE db_tasks
    /\ UNCHANGED <<task_user, cancel_flag>>
    /\ TasksOnly

\* POST /tasks/{task_id}/cancel: 404 unless the task exists and is the user's;
\* then the queue service sets the task's cancellation flag.
cancel_task(t, u) ==
    /\ IF task_user[t] = "nobody" \/ task_user[t] # u
       THEN UNCHANGED cancel_flag
       ELSE cancel_flag' = [cancel_flag EXCEPT ![t] = TRUE]
    /\ UNCHANGED <<mem_tasks, db_tasks, task_user>>
    /\ TasksOnly

\* POST /tasks/{task_id}/mark-failed
mark_task_as_failed(t, u) ==
    /\ mem_tasks' = update_task_status(mem_tasks, t, "failed")
    /\ db_tasks' = update_one_status(db_tasks, t, "failed")
    /\ UNCHANGED <<task_user, cancel_flag>>
    /\ TasksOnly

\* DELETE /tasks/{task_id}
delete_task(t, u) ==
    /\ mem_tasks' = [mem_tasks EXCEPT ![t] = "absent"]
    /\ db_tasks' = [db_tasks EXCEPT ![t] = "absent"]
    /\ UNCHANGED <<task_user, cancel_flag>>
    /\ TasksOnly

InitTasks == IdleTasks

NextTasks ==
    \/ \E t \in TaskIds, u \in Users : create_analysis_task(t, u)
    \/ \E t \in TaskIds : start_task(t)
    \/ \E t \in TaskIds, outcome \in Terminal : finish_task(t, outcome)
    \/ \E t \in TaskIds, u \in Users : cancel_task(t, u)
    \/ \E t \in TaskIds, u \in Users : mark_task_as_failed(t, u)
    \/ \E t \in TaskIds, u \in Users : delete_task(t, u)

StartTasks == InitTasks /\ IdleGraph /\ IdleManager /\ IdleMcp /\ IdleLater
SpecTasks == StartTasks /\ [][NextTasks]_vars

\* ------------------------------------------------------------------ claims: analysis tasks
\* C4 (as claimed): once a task's status is completed, failed or cancelled, no
\* operation changes that status, in the in-memory table or in analysis_tasks
\* (a deleted record has no status left to change).
C4_TerminalStatusImmutable ==
    [][ \A t \in TaskIds :
          /\ mem_tasks[t] \in Terminal => mem_tasks'[t] \in {mem_tasks[t], "absent"}
          /\ db_tasks[t] \in Terminal => db_tasks'[t] \in {db_tasks[t], "absent"}
      ]_vars

\* C27 (as claimed): a cancel, mark-failed or delete request made by a user
\* who does not own the task leaves the task's in-memory status, its stored
\* status and its cancellation flag as they were.
C27_OnlyOwnerChangesTask ==
    [][ \A t \in TaskIds, u \in Users :
          ( /\ task_user[t] # u
            /\ \/ cancel_task(t, u)
               \/ mark_task_as_failed(t, u)
               \/ delete_task(t, u) )
          => /\ mem_tasks'[t] = mem_tasks[t]
             /\ db_tasks'[t] = db_tasks[t]
             /\ cancel_flag'[t] = cancel_flag[t]
      ]_vars

\* ------------------------------------------------------------------ MCP tool loader
\* tradingagents/tools/mcp/loader.py, MCPToolLoaderFactory.  The loader's
\* dictionaries are functions over ServerNames; a missing key is the default
\* that the code's .get(name, 0) reads.

\* _build_server_params: the enabled servers of _server_configs
build_server_params == { name \in server_configs : name \in enabled_servers }

\* the loader's mutable fields that a connection changes
Loader ==
    [ clients |-> mcp_clients, tools |-> mcp_tools, pids |-> tracked_pids,
      status |-> server_status, counts |-> restart_counts, children |-> children ]

\* a child process of a stdio server, and whether _tracked_pids holds its pid
Child(name, tracked) == [ server |-> name, tracked |-> tracked ]

\* _initialize_single_server(name, params); dialed tells whether creating the
\* client and get_tools() succeed
initialize_single_server(loader, name, dialed) ==
    IF name \in loader.clients THEN loader
    ELSE IF dialed
    THEN [loader EXCEPT !.clients = @ \cup {name},
                        !.tools = @ \cup {name},
                        !.pids = IF name \in StdioServers THEN @ \cup {name} ELSE @,
                        !.children = IF name \in StdioServers
                                     THEN @ \cup {Child(name, TRUE)} ELSE @,
                        !.status[name] = "healthy",
                        !.counts[name] = 0]
    ELSE [loader EXCEPT !.clients = @ \ {name},
                        !.pids = @ \ {name},
                        !.status[name] = "unreachable"]

\* _cleanup_server_resources: the client closed and dropped, the
\* subprocesses terminated, the server's tools removed
cleanup_server_resources(loader, name) ==
    [loader EXCEPT !.clients = @ \ {name}, !.pids = @ \ {name}, !.tools = @ \ {name},
                   !.children = @ \ {Child(name, TRUE)}]

\* refresh_server, after its test that the server is configured
refresh(loader, name, dialed) ==
    LET cleaned == cleanup_server_resources(loader, name)
    IN IF name \in build_server_params
       THEN initialize_single_server(cleaned, name, dialed)
       ELSE cleaned

refresh_succeeds(loader, name, dialed) ==
    /\ name \in server_configs
    /\ name \in build_server_params
    /\ dialed

Install(loader) ==
    /\ mcp_clients' = loader.clients
    /\ mcp_tools' = loader.tools
    /\ tracked_pids' = loader.pids
    /\ server_status' = loader.status
    /\ restart_counts' = loader.counts
    /\ children' = loader.children

\* _can_restart_server: the answer, and the counts it leaves
can_restart_server(name) ==
    ~ ( /\ restart_counts[name] >= MAX_RESTART_ATTEMPTS
        /\ clock - last_restart_time[name] < RESTART_WINDOW_SECONDS )

counts_after_check(name) ==
    IF restart_counts[name] >= MAX_RESTART_ATTEMPTS /\ can_restart_server(name)
    THEN [restart_counts EXCEPT ![name] = 0]
    ELSE restart_counts

\* _record_restart
record_restart(counts, name) == [counts EXCEPT ![name] = @ + 1]

\* the calls in progress, the lock and the shutdown flag
callVars == <<bridge_lock, toggle_call, reload_pc, closed>>

\* time.time() advances
tick ==
    /\ clock + TickSeconds <= MaxClock
    /\ clock' = clock + TickSeconds
    /\ restart_outcome' = "none"
    /\ UNCHANGED <<initialized, server_configs, mcp_clients, mcp_tools, tracked_pids,
                   server_status, restart_counts, last_restart_time, restart_log,
                   enabled_servers, children>>
    /\ UNCHANGED callVars
    /\ McpOnly

RECURSIVE initialize_all(_, _, _)
\* for name, params in server_params.items(): _initialize_single_server
initialize_all(loader, names, dialed) ==
    IF names = {} THEN loader
    ELSE LET name == CHOOSE n \in names : TRUE
         IN initialize_all(initialize_single_server(loader, name, dialed[name]),
                           names \ {name}, dialed)

\* initialize_connections: the configuration is read, then every enabled
\* server is dialed
initialize_connections(dialed) ==
    /\ ~closed
    /\ ~initialized
    /\ bridge_lock = "free"
    /\ initialized' = TRUE
    /\ server_configs' = ConfiguredServers
    /\ enabled_servers' = EnabledServers
    /\ UNCHANGED callVars
    /\ LET registered == [Loader EXCEPT !.status =
                             [ n \in ServerNames |->
                                 IF n \notin ConfiguredServers THEN server_status[n]
                                 ELSE IF n \in EnabledServers THEN "unknown"
                                 ELSE "stopped" ]]
       IN Install(initialize_all(registered, ConfiguredServers \cap EnabledServers, dialed))
    /\ restart_outcome' = "none"
    /\ UNCHANGED <<clock, last_restart_time, restart_log>>
    /\ McpOnly

\* refresh_server(server_name)
refresh_server(name, dialed) ==
    /\ IF name \notin server_configs
       THEN UNCHANGED <<mcp_clients, mcp_tools, tracked_pids, server_status, restart_counts,
                        children>>
       ELSE Install(refresh(Loader, name, dialed))
    /\ restart_outcome' = "none"
    /\ UNCHANGED <<initialized, server_configs, clock, last_restart_time, restart_log,
                   enabled_servers>>
    /\ UNCHANGED callVars
    /\ McpOnly

RECURSIVE SumLen(_, _)
SumLen(log, names) ==
    IF names = {} THEN 0
    ELSE LET name == CHOOSE n \in names : TRUE
         IN Len(log[name]) + SumLen(log, names \ {name})

\* the restarts performed so far, over all servers
RestartsPerformed == SumLen(restart_log, ServerNames)

\* restart_server(server_name): the budget test, the record, the refresh
restart_server(name, dialed) ==
    /\ ~closed
    /\ IF ~can_restart_server(name)
       THEN /\ restart_outcome' = "refused"
            /\ UNCHANGED <<mcp_clients, mcp_tools, tracked_pids, server_status,
                           restart_counts, last_restart_time, restart_log, children>>
       ELSE /\ RestartsPerformed < MaxRestarts
            /\ LET counted == [Loader EXCEPT
                                 !.counts = record_restart(counts_after_check(name), name)]
               IN Install(IF name \in server_configs
                          THEN refresh(counted, name, dialed)
                          ELSE counted)
            /\ last_restart_time' = [last_restart_time EXCEPT ![name] = clock]
            /\ restart_log' = [restart_log EXCEPT ![name] = Append(@, clock)]
            /\ restart_outcome' = IF refresh_succeeds(Loader, name, dialed)
                                  THEN "restarted" ELSE "failed"
    /\ UNCHANGED <<initialized, server_configs, clock, enabled_servers>>
    /\ UNCHANGED callVars
    /\ McpOnly

\* reload_config: everything is closed and cleared, the restart records
\* included, and the connections are initialized again
reload_config(dialed) ==
    /\ bridge_lock = "free"
    /\ reload_pc = "idle"
    /\ initialized' = TRUE
    /\ server_configs' = ConfiguredServers
    /\ enabled_servers' = EnabledServers
    /\ UNCHANGED callVars
    /\ LET cleared == [ clients |-> {}, tools |-> {}, pids |-> {},
                        status |-> [ n \in ServerNames |->
                                       IF n \notin ConfiguredServers THEN server_status[n]
                                       ELSE IF n \in EnabledServers THEN "unknown"
                                       ELSE "stopped" ],
                        counts |-> [ n \in ServerNames |-> 0 ],
                        children |-> { c \in children : ~c.tracked } ]
       IN Install(initialize_all(cleared, ConfiguredServers \cap EnabledServers, dialed))
    /\ last_restart_time' = [ n \in ServerNames |-> 0 ]
    /\ restart_outcome' = "none"
    /\ UNCHANGED <<clock, restart_log>>
    /\ McpOnly

InitMcp == IdleMcp

NextMcp ==
    \/ tick
    \/ \E dialed \in [ServerNames -> BOOLEAN] : initialize_connections(dialed)
    \/ \E name \in ServerNames, dialed \in BOOLEAN : refresh_server(name, dialed)
    \/ \E name \in ServerNames, dialed \in BOOLEAN : restart_server(name, dialed)
    \/ \E dialed \in [ServerNames -> BOOLEAN] : reload_config(dialed)

StartMcp == InitMcp /\ IdleGraph /\ IdleTasks /\ IdleManager /\ IdleLater
SpecMcp == StartMcp /\ [][NextMcp]_vars

\* ------------------------------------------------------------------ MCP bridge: calls that overlap
\* _check_server_alive, for a server that has a client: its configuration exists
check_server_alive(name) == name \in server_configs

\* _build_single_server_param: None unless the server is configured and enabled
build_single_server_param(name) == name \in server_configs /\ name \in enabled_servers

\* _disconnect_server: the tools of the server and its client are dropped;
\* no subprocess is signalled
disconnect_server(loader, name) ==
    [loader EXCEPT !.tools = @ \ {name}, !.clients = @ \ {name}]

\* the records of the restart budget, which the steps below leave alone
budgetVars == <<clock, restart_counts, last_restart_time, restart_log>>

\* toggle_server, the part under the lock: the enabled flag of the loaded
\* configuration is written and the health monitor is told
toggle_server(name, enabled) ==
    /\ ~closed
    /\ toggle_call.pc = "idle"
    /\ bridge_lock = "free"
    /\ IF name \notin server_configs
       THEN UNCHANGED <<enabled_servers, server_status, toggle_call>>
       ELSE /\ enabled_servers' = IF enabled THEN enabled_servers \cup {name}
                                  ELSE enabled_servers \ {name}
            /\ server_status' = [server_status EXCEPT
                                   ![name] = IF enabled THEN "unknown" ELSE "stopped"]
            /\ toggle_call' = [ pc |-> IF enabled THEN "connect" ELSE "disconnect",
                                name |-> name, enabled |-> enabled ]
    /\ restart_outcome' = "none"
    /\ UNCHANGED <<initialized, server_configs, mcp_clients, mcp_tools, tracked_pids,
                   children, bridge_lock, reload_pc, closed>>
    /\ UNCHANGED budgetVars
    /\ McpOnly

\* _connect_server up to its await of get_tools(), run by toggle_server
\* after the lock is released
connect_server ==
    /\ ~closed
    /\ toggle_call.pc = "connect"
    /\ LET name == toggle_call.name
       IN IF name \in mcp_clients /\ check_server_alive(name)
          THEN /\ toggle_call' = IdleToggle
               /\ UNCHANGED <<mcp_clients, mcp_tools>>
          ELSE LET dropped == IF name \in mcp_clients
                              THEN disconnect_server(Loader, name) ELSE Loader
               IN IF ~build_single_server_param(name)
                  THEN /\ toggle_call' = IdleToggle
                       /\ mcp_clients' = dropped.clients
                       /\ mcp_tools' = dropped.tools
                  ELSE /\ toggle_call' = [toggle_call EXCEPT !.pc = "get_tools"]
                       /\ mcp_clients' = dropped.clients \cup {name}
                       /\ mcp_tools' = dropped.tools
    /\ restart_outcome' = "none"
    /\ UNCHANGED <<initialized, server_configs, enabled_servers, tracked_pids, server_status,
                   children, bridge_lock, reload_pc, closed>>
    /\ UNCHANGED budgetVars
    /\ McpOnly

\* _connect_server from the return of get_tools(): the tools are cached and
\* the server is healthy, or the exception handler disconnects it
connect_get_tools(dialed) ==
    /\ ~closed
    /\ toggle_call.pc = "get_tools"
    /\ LET name == toggle_call.name
       IN IF dialed
          THEN /\ mcp_tools' = mcp_tools \cup {name}
               /\ mcp_clients' = mcp_clients
               /\ children' = IF name \in StdioServers
                               THEN children \cup {Child(name, FALSE)} ELSE children
               /\ server_status' = [server_status EXCEPT ![name] = "healthy"]
          ELSE /\ mcp_tools' = disconnect_server(Loader, name).tools
               /\ mcp_clients' = disconnect_server(Loader, name).clients
               /\ children' = children
               /\ server_status' = [server_status EXCEPT ![name] = "unreachable"]
    /\ toggle_call' = IdleToggle
    /\ restart_outcome' = "none"
    /\ UNCHANGED <<initialized, server_configs, enabled_servers, tracked_pids,
                   bridge_lock, reload_pc, closed>>
    /\ UNCHANGED budgetVars
    /\ McpOnly

\* _disconnect_server, run by toggle_server after the lock is released
toggle_disconnect ==
    /\ ~closed
    /\ toggle_call.pc = "disconnect"
    /\ mcp_tools' = disconnect_server(Loader, toggle_call.name).tools
    /\ mcp_clients' = disconnect_server(Loader, toggle_call.name).clients
    /\ toggle_call' = IdleToggle
    /\ restart_outcome' = "none"
    /\ UNCHANGED <<initialized, server_configs, enabled_servers, tracked_pids, server_status,
                   children, bridge_lock, reload_pc, closed>>
    /\ UNCHANGED budgetVars
    /\ McpOnly

\* reload_config takes the lock and awaits the close of every client
reload_close ==
    /\ ~closed
    /\ reload_pc = "idle"
    /\ bridge_lock = "free"
    /\ bridge_lock' = "reload_config"
    /\ reload_pc' = "closing"
    /\ restart_outcome' = "none"
    /\ UNCHANGED <<initialized, server_configs, enabled_servers, mcp_clients, mcp_tools,
                   tracked_pids, server_status, children, toggle_call, closed>>
    /\ UNCHANGED budgetVars
    /\ McpOnly

\* reload_config clears the caches, signals the tracked subprocesses and
\* releases the lock
reload_clear ==
    /\ ~closed
    /\ reload_pc = "closing"
    /\ mcp_clients' = {}
    /\ mcp_tools' = {}
    /\ server_configs' = {}
    /\ enabled_servers' = {}
    /\ children' = { c \in children : ~c.tracked }
    /\ tracked_pids' = {}
    /\ restart_counts' = [ n \in ServerNames |-> 0 ]
    /\ last_restart_time' = [ n \in ServerNames |-> 0 ]
    /\ initialized' = FALSE
    /\ bridge_lock' = "free"
    /\ reload_pc' = "initialize"
    /\ restart_outcome' = "none"
    /\ UNCHANGED <<server_status, toggle_call, closed, clock, restart_log>>
    /\ McpOnly

\* reload_config ends with initialize_connections, which takes the lock again
reload_initialize(dialed) ==
    /\ ~closed
    /\ reload_pc = "initialize"
    /\ bridge_lock = "free"
    /\ reload_pc' = "idle"
    /\ IF initialized
       THEN UNCHANGED <<initialized, server_configs, enabled_servers, mcp_clients, mcp_tools,
                        tracked_pids, server_status, restart_counts, children>>
       ELSE /\ initialized' = TRUE
            /\ server_configs' = ConfiguredServers
            /\ enabled_servers' = EnabledServers
            /\ LET registered == [Loader EXCEPT !.status =
                                     [ n \in ServerNames |->
                                         IF n \notin ConfiguredServers THEN server_status[n]
                                         ELSE IF n \in EnabledServers THEN "unknown"
                                         ELSE "stopped" ]]
               IN Install(initialize_all(registered,
                                         ConfiguredServers \cap EnabledServers, dialed))
    /\ restart_outcome' = "none"
    /\ UNCHANGED <<bridge_lock, toggle_call, closed, clock, last_restart_time, restart_log>>
    /\ McpOnly

\* add_server(server_name, config)
add_server(name, enabled, dialed) ==
    /\ ~closed
    /\ IF name \in server_configs
       THEN UNCHANGED <<server_configs, enabled_servers, mcp_clients, mcp_tools, tracked_pids,
                        server_status, restart_counts, children>>
       ELSE /\ server_configs' = server_configs \cup {name}
            /\ enabled_servers' = IF enabled THEN enabled_servers \cup {name}
                                  ELSE enabled_servers \ {name}
            /\ IF enabled
               THEN Install(initialize_single_server(Loader, name, dialed))
               ELSE UNCHANGED <<mcp_clients, mcp_tools, tracked_pids, server_status,
                                restart_counts, children>>
    /\ restart_outcome' = "none"
    /\ UNCHANGED <<initialized, clock, last_restart_time, restart_log>>
    /\ UNCHANGED callVars
    /\ McpOnly

\* close(): the clients are closed, the tracked subprocesses are signalled
\* and the caches are cleared
close ==
    /\ ~closed
    /\ closed' = TRUE
    /\ mcp_clients' = {}
    /\ mcp_tools' = {}
    /\ server_configs' = {}
    /\ enabled_servers' = {}
    /\ children' = { c \in children : ~c.tracked }
    /\ tracked_pids' = {}
    /\ restart_counts' = [ n \in ServerNames |-> 0 ]
    /\ last_restart_time' = [ n \in ServerNames |-> 0 ]
    /\ initialized' = FALSE
    /\ restart_outcome' = "none"
    /\ UNCHANGED <<server_status, bridge_lock, toggle_call, reload_pc, clock, restart_log>>
    /\ McpOnly

\* toggle_server calls and reload_config calls, overlapping
NextReload ==
    \/ \E dialed \in [ServerNames -> BOOLEAN] : initialize_connections(dialed)
    \/ \E name \in ServerNames, enabled \in BOOLEAN : toggle_server(name, enabled)
    \/ connect_server
    \/ \E dialed \in BOOLEAN : connect_get_tools(dialed)
    \/ toggle_disconnect
    \/ reload_close
    \/ reload_clear
    \/ \E dialed \in [ServerNames -> BOOLEAN] : reload_initialize(dialed)

StartReload == IdleMcp /\ IdleGraph /\ IdleTasks /\ IdleManager /\ IdleLater
SpecReload == StartReload /\ [][NextReload]_vars

\* every way to connect a server, until the bridge is shut down: no call is
\* made after close()
NextClose ==
    \/ \E dialed \in [ServerNames -> BOOLEAN] : initialize_connections(dialed)
    \/ \E name \in ServerNames, enabled \in BOOLEAN : toggle_server(name, enabled)
    \/ connect_server
    \/ \E dialed \in BOOLEAN : connect_get_tools(dialed)
    \/ toggle_disconnect
    \/ \E name \in ServerNames, enabled, dialed \in BOOLEAN : add_server(name, enabled, dialed)
    \/ \E name \in ServerNames, dialed \in BOOLEAN : restart_server(name, dialed)
    \/ close

StartClose == IdleMcp /\ IdleGraph /\ IdleTasks /\ IdleManager /\ IdleLater
SpecClose == StartClose /\ [][NextClose]_vars

\* ------------------------------------------------------------------ claims: MCP tool loader
\* the restarts of one server that were performed from the time of its i-th one
\* to less than RESTART_WINDOW_SECONDS later
RestartsFrom(log, i) ==
    { j \in DOMAIN log : log[j] >= log[i] /\ log[j] - log[i] < RESTART_WINDOW_SECONDS }

\* C10 (as claimed): for every server, at most MAX_RESTART_ATTEMPTS restarts
\* are performed within any RESTART_WINDOW_SECONDS, whether they succeed or
\* fail; and a refused restart_server call changes neither the clients, the
\* tools nor the tracked subprocesses.
C10_RestartBudget ==
    [][ /\ \A name \in ServerNames : \A i \in DOMAIN restart_log'[name] :
              Cardinality(RestartsFrom(restart_log'[name], i)) <= MAX_RESTART_ATTEMPTS
        /\ restart_outcome' = "refused" =>
              UNCHANGED <<mcp_clients, mcp_tools, tracked_pids, restart_log>>
      ]_vars

\* C11 (as claimed): once no toggle_server and no reload_config call is in
\* progress, every server with a cached client or cached tools is present and
\* enabled in the loaded configuration, and every enabled server whose last
\* connection succeeded has its client.
C11_SerializedByLock ==
    (toggle_call.pc = "idle" /\ reload_pc = "idle") =>
        /\ \A name \in mcp_clients \cup mcp_tools :
              name \in server_configs /\ name \in enabled_servers
        /\ \A name \in enabled_servers :
              server_status[name] = "healthy" => name \in mcp_clients

\* C12 (as claimed): after close() no client, no cached tool and no tracked
\* pid remains, and no child process launched for a stdio server is left
\* without a terminate signal.
C12_CloseLeavesNothing ==
    closed => /\ mcp_clients = {} /\ mcp_tools = {} /\ tracked_pids = {}
              /\ children = {}

\* ------------------------------------------------------------------ tool circuit breaker
\* the consecutive failures that open the breaker of a (task, tool)
FAILURE_THRESHOLD == 3

\* tool.metadata["server_name"]
server_name(tool) == IF tool = "web_search" THEN "finance" ELSE "local"

\* _wrap_tool_safe wraps a tool only if it comes from an external MCP server
is_external_mcp_tool(tool) == server_name(tool) # "none" /\ server_name(tool) # "local"

\* the state of a record at a given time: an open breaker whose cooldown
\* window has passed is half-open
state_at(record, time) ==
    IF record.state = "open" /\ time - record.opened_at >= CooldownTicks
    THEN "half_open" ELSE record.state

\* task_mcp_manager.is_tool_available: closed, or half-open for one probe
is_tool_available(record, time) == state_at(record, time) # "open"

\* task_mcp_manager.execute_tool: the record after the tool body has run
execute_tool(record, time, body_fails) ==
    IF ~body_fails THEN ClosedRecord
    ELSE IF state_at(record, time) = "half_open"
            \/ record.fail_count + 1 >= FAILURE_THRESHOLD
         THEN [ state |-> "open", fail_count |-> FAILURE_THRESHOLD, opened_at |-> time ]
         ELSE [record EXCEPT !.fail_count = @ + 1]

\* check_and_execute with the availability test left out
check_and_execute_unchecked(available, manager_raises, body_fails) ==
    IF manager_raises THEN "raise"
    ELSE IF body_fails THEN "error" ELSE "value"

\* check_and_execute: the breaker is asked first, then the manager runs the
\* tool; an exception of the manager leaves as an exception
check_and_execute(available, manager_raises, body_fails) ==
    IF manager_raises THEN "raise"
    ELSE IF ~available THEN "disabled"
    ELSE IF body_fails THEN "error" ELSE "value"

\* safe_func: the worker thread keeps the exception, and an error or a
\* disabled answer becomes a string
safe_func(outcome) ==
    CASE outcome = "raise" -> "error_string"
      [] outcome = "disabled" -> "disabled_string"
      [] outcome = "error" -> "error_string"
      [] OTHER -> "value"

\* safe_coro: the disabled string, or whatever execute_tool answers or raises
safe_coro(outcome) ==
    CASE outcome = "raise" -> "raised"
      [] outcome = "disabled" -> "disabled_string"
      [] outcome = "error" -> "error_answer"
      [] OTHER -> "value"

\* time passes for the breaker manager
breaker_tick ==
    /\ breaker_clock < MaxBreakerClock
    /\ breaker_clock' = breaker_clock + 1
    /\ UNCHANGED <<tool_call_records, tripped, last_call>>
    /\ BreakerOnly

\* one call of a tool by a task, through tool.func or tool.coroutine
call_tool(task, tool, entry, body_fails, manager_raises) ==
    /\ LET key == <<task, tool>>
           record == tool_call_records[key]
           outcome == check_and_execute(is_tool_available(record, breaker_clock),
                                        manager_raises, body_fails)
           invoked == outcome \in {"error", "value"}
           after == execute_tool(record, breaker_clock, body_fails)
       IN IF ~is_external_mcp_tool(tool)
          THEN /\ ~manager_raises
               /\ last_call' = [ task |-> task, tool |-> tool, entry |-> entry,
                                 record_before |-> "none", tripped_before |-> FALSE,
                                 answered |-> FALSE, invoked |-> TRUE,
                                 result |-> IF body_fails THEN "raised" ELSE "value" ]
               /\ UNCHANGED <<tool_call_records, tripped>>
          ELSE /\ last_call' = [ task |-> task, tool |-> tool, entry |-> entry,
                                 record_before |-> state_at(record, breaker_clock),
                                 tripped_before |-> key \in tripped,
                                 answered |-> ~manager_raises, invoked |-> invoked,
                                 result |-> IF entry = "func" THEN safe_func(outcome)
                                            ELSE safe_coro(outcome) ]
               /\ tool_call_records' = IF invoked
                                       THEN [tool_call_records EXCEPT ![key] = after]
                                       ELSE tool_call_records
               /\ tripped' = IF invoked /\ after.state = "open"
                             THEN tripped \cup {key} ELSE tripped
    /\ UNCHANGED breaker_clock
    /\ BreakerOnly

InitBreaker == IdleBreaker

NextBreaker ==
    \/ breaker_tick
    \/ \E task \in BreakerTasks, tool \in BreakerTools, entry \in {"func", "coroutine"},
          body_fails, manager_raises \in BOOLEAN :
          call_tool(task, tool, entry, body_fails, manager_raises)

StartBreaker == InitBreaker /\ IdleCore /\ IdleLoad /\ IdleBatch /\ IdleStatus /\ IdleResult /\ IdleSummary /\ IdleDebate /\ IdleConfig /\ IdleWs /\ IdleAnalysts /\ IdleInit /\ IdleDelete /\ IdleProgress /\ IdleWriteThrough
SpecBreaker == StartBreaker /\ [][NextBreaker]_vars

C14_NeverRaises ==
    (last_call.tool # "none" /\ is_external_mcp_tool(last_call.tool)) =>
        last_call.result # "raised"

\* ------------------------------------------------------------------ load_tools
\* the tools of the local server and the tools external servers can provide,
\* by name, in the order they are listed
LocalTools == <<"get_stock_news", "get_stock_data">>
ExternalTools == <<"web_search", "fetch_filings">>

\* the elements of a sequence
Range(seq) == { seq[i] : i \in DOMAIN seq }

\* a tool id as an allow-list writes it: the name, or "local:" and the name
PlainId(name) == <<name>>
LocalId(name) == <<"local", name>>
ToolIds ==
    { PlainId(n) : n \in Range(LocalTools) \cup Range(ExternalTools) \cup {"no_such_tool"} }
        \cup { LocalId(n) : n \in Range(LocalTools) }

\* the allow-lists of at most MaxSelected ids
AllowLists == { ids \in SUBSET ToolIds : Cardinality(ids) <= MaxSelected }

\* the states of the cache _mcp_tools
CachedTools == { <<>>, <<"web_search">>, <<"fetch_filings">>, ExternalTools }

\* tool_name in selected_tool_ids or f"local:{tool_name}" in selected_tool_ids
is_selected(tool_name, selected_tool_ids) ==
    PlainId(tool_name) \in selected_tool_ids \/ LocalId(tool_name) \in selected_tool_ids

RECURSIVE filter_selected(_, _)
\* the loop over all_tools that appends the selected ones
filter_selected(all_tools, selected_tool_ids) ==
    IF all_tools = <<>> THEN <<>>
    ELSE LET rest == filter_selected(Tail(all_tools), selected_tool_ids)
         IN IF is_selected(Head(all_tools), selected_tool_ids)
            THEN <<Head(all_tools)>> \o rest ELSE rest

\* load_tools(selected_tool_ids, include_local)
load_tools(cached, selected_tool_ids, include_local) ==
    LET all_tools == (IF include_local THEN LocalTools ELSE <<>>) \o cached
        selected_tools == filter_selected(all_tools, selected_tool_ids)
    IN IF selected_tool_ids = {} THEN all_tools
       ELSE IF selected_tools # <<>> THEN selected_tools ELSE all_tools

\* a caller loads tools from some state of the cache
call_load_tools(cached, selected_tool_ids, include_local) ==
    /\ load_request' = [ cached |-> cached, selected_tool_ids |-> selected_tool_ids,
                         include_local |-> include_local ]
    /\ loaded_tools' = load_tools(cached, selected_tool_ids, include_local)
    /\ LoadOnly

InitLoad == IdleLoad

NextLoad ==
    \E cached \in CachedTools, selected_tool_ids \in AllowLists, include_local \in BOOLEAN :
        call_load_tools(cached, selected_tool_ids, include_local)

StartLoad == InitLoad /\ IdleCore /\ IdleBreaker /\ IdleBatch /\ IdleStatus /\ IdleResult /\ IdleSummary /\ IdleDebate /\ IdleConfig /\ IdleWs /\ IdleAnalysts /\ IdleInit /\ IdleDelete /\ IdleProgress /\ IdleWriteThrough
SpecLoad == StartLoad /\ [][NextLoad]_vars

\* ------------------------------------------------------------------ claims: load_tools
\* C15 (as claimed): with a non-empty allow-list the tools loaded are exactly
\* the available tools that the allow-list names, also when it names none of
\* them.
C15_ExactlyAllowListed ==
    load_request.selected_tool_ids # {} =>
        Range(loaded_tools) =
            { name \in Range(LocalTools) \cup Range(load_request.cached) :
                /\ name \in Range(LocalTools) => load_request.include_local
                /\ is_selected(name, load_request.selected_tool_ids) }

\* ------------------------------------------------------------------ batch submission
\* the loop that starts the analyses, awaiting each before it starts the next
create_tasks_awaiting_each(n) == [ i \in 1 .. n |-> IF i = 1 THEN "started" ELSE "not_started" ]

\* the loop of run_concurrent_analysis: asyncio.create_task for every symbol,
\* with no await in between
create_tasks(n) == [ i \in 1 .. n |-> "started" ]

\* run_single_analysis: an exception of execute_analysis_background is caught
\* and logged
run_single_analysis(raises) == IF raises THEN "failed" ELSE "completed"

\* submit_batch_analysis up to its response: the validation, one task record
\* per symbol until a creation fails (fails_at = 0: none fails), the spawn of
\* run_concurrent_analysis
submit_batch_analysis(n, fails_at) ==
    /\ batch_response = "none"
    /\ stock_symbols' = n
    /\ IF n = 0 \/ n > MAX_BATCH_SIZE
       THEN /\ batch_response' = "400"
            /\ task_ids' = {}
            /\ background' = "none"
       ELSE IF fails_at \in 1 .. n
       THEN /\ batch_response' = "400"
            /\ task_ids' = 1 .. (fails_at - 1)
            /\ background' = "none"
       ELSE /\ batch_response' = "200"
            /\ task_ids' = 1 .. n
            /\ background' = "spawned"
    /\ tasks' = [ i \in 1 .. n |-> "not_started" ]
    /\ BatchOnly

\* run_concurrent_analysis up to its await of asyncio.gather
run_concurrent_analysis ==
    /\ background = "spawned"
    /\ tasks' = create_tasks(stock_symbols)
    /\ background' = "gathering"
    /\ UNCHANGED <<stock_symbols, task_ids, batch_response>>
    /\ BatchOnly

\* one analysis runs to its end
execute_analysis_background(i, raises) ==
    /\ i \in DOMAIN tasks
    /\ tasks[i] = "started"
    /\ tasks' = [tasks EXCEPT ![i] = run_single_analysis(raises)]
    /\ UNCHANGED <<stock_symbols, task_ids, batch_response, background>>
    /\ BatchOnly

\* asyncio.gather(*tasks, return_exceptions=True) returns
gather ==
    /\ background = "gathering"
    /\ \A i \in DOMAIN tasks : tasks[i] \in {"completed", "failed"}
    /\ background' = "done"
    /\ UNCHANGED <<stock_symbols, task_ids, batch_response, tasks>>
    /\ BatchOnly

InitBatch == IdleBatch

NextBatch ==
    \/ \E n \in 0 .. MaxSymbols, fails_at \in 0 .. MaxSymbols : submit_batch_analysis(n, fails_at)
    \/ run_concurrent_analysis
    \/ \E i \in 1 .. MAX_BATCH_SIZE, raises \in BOOLEAN : execute_analysis_background(i, raises)
    \/ gather

StartBatch == InitBatch /\ IdleCore /\ IdleBreaker /\ IdleLoad /\ IdleStatus /\ IdleResult /\ IdleSummary /\ IdleDebate /\ IdleConfig /\ IdleWs /\ IdleAnalysts /\ IdleInit /\ IdleDelete /\ IdleProgress /\ IdleWriteThrough
SpecBatch == StartBatch /\ [][NextBatch]_vars

\* ------------------------------------------------------------------ claims: batch submission
\* C16 (as claimed): a batch request answered 400 has created no task record
\* and started no analysis, and a request of exactly MAX_BATCH_SIZE symbols
\* whose task creations all succeed is accepted.
C16_RejectedBatchNoSideEffects ==
    /\ batch_response = "400" =>
           /\ task_ids = {}
           /\ \A i \in DOMAIN tasks : tasks[i] = "not_started"
    /\ (stock_symbols = MAX_BATCH_SIZE /\ task_ids = 1 .. MAX_BATCH_SIZE) =>
           batch_response = "200"

\* C17: an accepted batch of N symbols has N task records; no analysis has
\* ended while another is still to be started; and an analysis that has
\* started can run to its end whatever the others did, an exception in one
\* changing the state of no other.
C17_AllStartedTogether ==
    /\ batch_response = "200" => task_ids = 1 .. stock_symbols
    /\ (\E i \in DOMAIN tasks : tasks[i] \in {"completed", "failed"}) =>
           \A j \in DOMAIN tasks : tasks[j] # "not_started"
    /\ \A j \in DOMAIN tasks :
           tasks[j] = "started" => ENABLED execute_analysis_background(j, FALSE)

\* a batch of MAX_BATCH_SIZE symbols in which one analysis has raised, one
\* has completed and the others are running
C17_Witness ==
    /\ stock_symbols = MAX_BATCH_SIZE
    /\ batch_response = "200"
    /\ tasks[1] = "failed"
    /\ tasks[2] = "completed"
    /\ \A j \in 3 .. MAX_BATCH_SIZE : tasks[j] = "started"

\* ------------------------------------------------------------------ status lookup
\* what the three layers can hold for one task; a document of analysis_tasks
\* may lack its status or progress field
MemoryRows ==
    {Absent} \cup [ held : {TRUE}, status : {"pending", "running", "completed", "failed"},
                    progress : {0, 50, 100} ]
TaskDocuments ==
    {Absent} \cup [ held : {TRUE}, status : {"missing", "running", "completed"},
                    progress : {-1, 40, 100} ]
ReportDocuments == {Absent, [ held |-> TRUE ]}

\* task_result.get(key, default), a missing field being "missing" or -1
get_status(document) == IF document.status = "missing" THEN "pending" ELSE document.status
get_progress(document) == IF document.progress = -1 THEN 0 ELSE document.progress

\* the lookup with the reports collection read before the tasks collection
get_task_status_reports_first(memory, task_result, mongo_result) ==
    IF memory.held
    THEN [ code |-> 200, source |-> "memory", status |-> memory.status,
           progress |-> memory.progress ]
    ELSE IF mongo_result.held
    THEN [ code |-> 200, source |-> "mongodb_reports", status |-> "completed",
           progress |-> 100 ]
    ELSE IF task_result.held
    THEN [ code |-> 200, source |-> "mongodb_tasks", status |-> get_status(task_result),
           progress |-> get_progress(task_result) ]
    ELSE [ code |-> 404 ]

\* get_task_status_new: the service's memory, then db.analysis_tasks, then
\* db.analysis_reports, then HTTP 404
get_task_status_new(memory, task_result, mongo_result) ==
    IF memory.held
    THEN [ code |-> 200, source |-> "memory", status |-> memory.status,
           progress |-> memory.progress ]
    ELSE IF task_result.held
    THEN [ code |-> 200, source |-> "mongodb_tasks", status |-> get_status(task_result),
           progress |-> get_progress(task_result) ]
    ELSE IF mongo_result.held
    THEN [ code |-> 200, source |-> "mongodb_reports", status |-> "completed",
           progress |-> 100 ]
    ELSE [ code |-> 404 ]

\* a client asks for the status of the task
ask_status ==
    /\ status_response' = get_task_status_new(memory_table, analysis_tasks, analysis_reports)
    /\ UNCHANGED <<memory_table, analysis_tasks, analysis_reports>>
    /\ StatusOnly

InitStatus ==
    /\ memory_table \in MemoryRows
    /\ analysis_tasks \in TaskDocuments
    /\ analysis_reports \in ReportDocuments
    /\ status_response = NoStatusResponse

NextStatus == ask_status

StartStatus == InitStatus /\ IdleCore /\ IdleBreaker /\ IdleLoad /\ IdleBatch /\ IdleResult /\ IdleSummary /\ IdleDebate /\ IdleConfig /\ IdleWs /\ IdleAnalysts /\ IdleInit /\ IdleDelete /\ IdleProgress /\ IdleWriteThrough
SpecStatus == StartStatus /\ [][NextStatus]_vars

\* ------------------------------------------------------------------ claims: status lookup
\* C18: the status endpoint answers from the memory table if it holds the
\* task, else from analysis_tasks if it holds it, else from analysis_reports
\* with status completed and progress 100, and with 404 if no layer holds it.
C18_LayeredLookup ==
    status_response # NoStatusResponse =>
        /\ memory_table.held =>
               /\ status_response.code = 200 /\ status_response.source = "memory"
               /\ status_response.status = memory_table.status
               /\ status_response.progress = memory_table.progress
        /\ (~memory_table.held /\ analysis_tasks.held) =>
               /\ status_response.code = 200 /\ status_response.source = "mongodb_tasks"
               /\ analysis_tasks.status # "missing" =>
                      status_response.status = analysis_tasks.status
               /\ analysis_tasks.progress # -1 =>
                      status_response.progress = analysis_tasks.progress
        /\ (~memory_table.held /\ ~analysis_tasks.held /\ analysis_reports.held) =>
               /\ status_response.code = 200 /\ status_response.source = "mongodb_reports"
               /\ status_response.status = "completed"
               /\ status_response.progress = 100
        /\ (~memory_table.held /\ ~analysis_tasks.held /\ ~analysis_reports.held) =>
               status_response.code = 404

\* the status was asked of a task that analysis_tasks and analysis_reports
\* both hold and the memory table does not
C18_Witness ==
    /\ status_response # NoStatusResponse
    /\ ~memory_table.held
    /\ analysis_tasks.held /\ analysis_tasks.status = "running"
    /\ analysis_reports.held

\* ------------------------------------------------------------------ result hydration
\* A text is its leading white space, its core (from the first to the last
\* character that is not white space) and its trailing white space, by length.
Str(lead, core, trail) == [ kind |-> "str", lead |-> lead, core |-> core, trail |-> trail ]
Number == [ kind |-> "number" ]
Texts == { Str(lead, core, trail) : lead \in 0 .. 1, core \in {0, 1, 30}, trail \in 0 .. 1 }

\* what a key of reports can hold in a storage layer
ReportValues == {None, Number} \cup Texts
ReportKeys == {"market_report", "news_report"}

\* the reports field of the stored result: missing, None, a list, or a dict
ReportDicts == UNION { [keys -> ReportValues] : keys \in SUBSET ReportKeys }
ReportsFields ==
    {NoReports, None, [ kind |-> "list" ]} \cup { [ kind |-> "dict", items |-> d ] : d \in ReportDicts }

\* str.strip(); a text without core is all white space and strips to ""
strip(text) == Str(0, text.core, 0)
\* len(text)
len(text) == IF text.core = 0 THEN text.lead ELSE text.lead + text.core + text.trail
\* bool(text)
nonempty(text) == len(text) > 0
\* str(value) of a value that is not a string
str(value) == IF value.kind = "str" THEN value ELSE Str(0, 1, 0)
\* a trimmed non-empty string
IsTrimmedText(value) ==
    value.kind = "str" /\ value.lead = 0 /\ value.trail = 0 /\ value.core > 0

\* the placeholders of the final validation
PLACEHOLDER_NONE == Str(0, 6, 0)
PLACEHOLDER_EMPTY == Str(0, 6, 0)

\* bool(reports) of the reports field
truthy(field) ==
    field.kind = "list" \/ (field.kind = "dict" /\ DOMAIN field.items # {})

\* the reports taken from state when the stored result has none: a *_report
\* value that is a string of more than 10 characters once stripped
reports_from_state(state_report) ==
    IF state_report.kind = "str" /\ len(strip(state_report)) > STATE_REPORT_MIN
    THEN [ k \in {"market_report"} |-> strip(state_report) ]
    ELSE [ k \in {} |-> None ]

\* the cleaning loop that keeps every value it finds
clean_reports_keeping_all(reports) == reports

\* the cleaning loop: a string is kept stripped if it is not blank, another
\* value that is not None is kept as the stripped str(value), the rest is
\* skipped
clean_reports(reports) ==
    LET kept == { k \in DOMAIN reports :
                    /\ reports[k] # None
                    /\ nonempty(strip(str(reports[k]))) }
    IN [ k \in kept |-> strip(str(reports[k])) ]

\* the final validation of each report
validate_reports(reports) ==
    [ k \in DOMAIN reports |->
        IF reports[k] = None THEN PLACEHOLDER_NONE
        ELSE IF nonempty(strip(str(reports[k]))) THEN strip(str(reports[k]))
        ELSE PLACEHOLDER_EMPTY ]

\* get_task_result from the stored result to the reports of the response
hydrate_reports(data) ==
    LET found == IF truthy(data.reports) THEN data.reports
                 ELSE [ kind |-> "dict", items |-> reports_from_state(data.state_report) ]
        cleaned == IF ~truthy(found) THEN found.items
                   ELSE IF found.kind = "dict" THEN clean_reports(found.items)
                   ELSE [ k \in {} |-> None ]
        da == data.detailed_analysis
        filled == IF DOMAIN cleaned = {} /\ da.kind = "str"
                     /\ len(strip(da)) > DETAILED_ANALYSIS_MIN
                  THEN [ k \in {"detailed_analysis"} |-> strip(da) ]
                  ELSE cleaned
    IN validate_reports(filled)

\* a client asks for the result of a task whose result is stored
get_task_result ==
    /\ result_response' = [ code |-> 200, reports |-> hydrate_reports(result_data) ]
    /\ UNCHANGED result_data
    /\ ResultOnly

InitResult ==
    /\ result_data \in [ reports : ReportsFields,
                         state_report : {None, Str(1, 1, 0), Str(1, 30, 1)},
                         detailed_analysis : {None, Str(0, 1, 1), Str(1, 30, 1)} ]
    /\ result_response = [ code |-> 0 ]

NextResult == get_task_result

StartResult == InitResult /\ IdleCore /\ IdleBreaker /\ IdleLoad /\ IdleBatch /\ IdleStatus /\ IdleSummary /\ IdleDebate /\ IdleConfig /\ IdleWs /\ IdleAnalysts /\ IdleInit /\ IdleDelete /\ IdleProgress /\ IdleWriteThrough
SpecResult == StartResult /\ [][NextResult]_vars

\* ------------------------------------------------------------------ claims: result hydration
\* C19: in a successful response every value of reports is a trimmed
\* non-empty string, and a stored report that is None or blank is not in the
\* response, while a stored string that is not blank is returned stripped.
C19_ReportsAreTrimmedTexts ==
    result_response.code = 200 =>
        /\ \A k \in DOMAIN result_response.reports :
               IsTrimmedText(result_response.reports[k])
        /\ result_data.reports.kind = "dict" =>
               \A k \in DOMAIN result_data.reports.items :
                   LET stored == result_data.reports.items[k]
                   IN IF stored = None \/ (stored.kind = "str" /\ stored.core = 0)
                      THEN k \notin DOMAIN result_response.reports
                      ELSE /\ k \in DOMAIN result_response.reports
                           /\ stored.kind = "str" =>
                                  result_response.reports[k] = Str(0, stored.core, 0)

\* a response for a stored result with one report that is None and one with
\* white space around it
C19_Witness ==
    /\ result_response.code = 200
    /\ result_data.reports.kind = "dict"
    /\ DOMAIN result_data.reports.items = ReportKeys
    /\ result_data.reports.items["market_report"] = None
    /\ result_data.reports.items["news_report"] = Str(1, 30, 1)
    /\ DOMAIN result_response.reports = {"news_report"}

\* ------------------------------------------------------------------ summary node
\* The content of an answer is a sequence of pieces: the fence that opens a
\* json code block, a plain fence, white space, a JSON object, a JSON array,
\* a JSON number, or prose.  The object is the one the prompt asks for, or one
\* with the same keys whose values are outside the ranges the prompt names.
FENCE_JSON == "fence_json"
FENCE == "fence"
SPACE == " "
ObjectPieces == {"object", "object_out_of_range"}
AnswerPieces == {FENCE_JSON, FENCE, SPACE, "array", "number", "prose"} \cup ObjectPieces
Contents == UNION { [1 .. n -> AnswerPieces] : n \in 0 .. MaxAnswerLen }
Answers ==
    {[ raises |-> TRUE, content |-> <<>> ]} \cup { [ raises |-> FALSE, content |-> c ] : c \in Contents }

RECURSIVE lstrip(_)
lstrip(content) ==
    IF content # <<>> /\ Head(content) = SPACE THEN lstrip(Tail(content)) ELSE content

RECURSIVE rstrip(_)
rstrip(content) ==
    IF content # <<>> /\ content[Len(content)] = SPACE
    THEN rstrip(SubSeq(content, 1, Len(content) - 1)) ELSE content

\* content.strip()
strip_content(content) == rstrip(lstrip(content))

\* the markdown marks are cut: a leading json fence, a trailing fence, then strip()
clean_markdown(content) ==
    LET stripped == strip_content(content)
        without_head == IF stripped # <<>> /\ Head(stripped) = FENCE_JSON
                  THEN Tail(stripped) ELSE stripped
        without_tail == IF without_head # <<>> /\ without_head[Len(without_head)] = FENCE
                  THEN SubSeq(without_head, 1, Len(without_head) - 1) ELSE without_head
    IN strip_content(without_tail)

\* json.loads: one JSON value with white space around it, or JSONDecodeError
json_loads(content) ==
    LET document == strip_content(content)
    IN IF Len(document) = 1 /\ document[1] \in ObjectPieces \cup {"array", "number"}
       THEN document[1] ELSE "JSONDecodeError"

\* the two fallback objects of summary_node
PARSE_DEFAULT ==
    [ model_confidence |-> 50, final_signal |-> "Hold", risk_level |-> "Medium",
      risk_score |-> 5 ]
FAILED_DEFAULT ==
    [ model_confidence |-> 0, final_signal |-> "Hold", risk_level |-> "Low",
      risk_score |-> 0 ]
\* what json.loads gives for the object pieces: the values the model wrote
ANSWERED ==
    [ model_confidence |-> 80, final_signal |-> "Buy", risk_level |-> "High",
      risk_score |-> 7 ]
ANSWERED_OUT_OF_RANGE ==
    [ model_confidence |-> 150, final_signal |-> "Strong Buy", risk_level |-> "Extreme",
      risk_score |-> 11 ]

\* the try block of summary_node and its two handlers: the keys of the parsed
\* value are logged, which only an object allows
structured_data(answer) ==
    IF answer.raises THEN FAILED_DEFAULT
    ELSE LET parsed == json_loads(clean_markdown(answer.content))
         IN CASE parsed = "JSONDecodeError" -> PARSE_DEFAULT
              [] parsed = "object" -> ANSWERED
              [] parsed = "object_out_of_range" -> ANSWERED_OUT_OF_RANGE
              [] OTHER -> FAILED_DEFAULT

\* summary_node(state)
summary_node(answer) ==
    /\ summary_result.outcome = "none"
    /\ llm_answer' = answer
    /\ summary_result' = [ outcome |-> "returned", structured_summary |-> structured_data(answer) ]
    /\ SummaryOnly

InitSummary == IdleSummary

NextSummary == \E answer \in Answers : summary_node(answer)

StartSummary == InitSummary /\ IdleCore /\ IdleBreaker /\ IdleLoad /\ IdleBatch /\ IdleStatus /\ IdleResult /\ IdleDebate /\ IdleConfig /\ IdleWs /\ IdleAnalysts /\ IdleInit /\ IdleDelete /\ IdleProgress /\ IdleWriteThrough
SpecSummary == StartSummary /\ [][NextSummary]_vars

\* ------------------------------------------------------------------ claims: summary node
\* C20 (as claimed): the summary node returns, and whenever the content the
\* model answered is not a JSON object (once the markdown marks are cut) the
\* structured_summary is the default with model_confidence 50, final_signal
\* Hold and risk level Medium.
C20_DefaultOnUnparseable ==
    summary_result.outcome # "none" =>
        /\ summary_result.outcome = "returned"
        /\ (~llm_answer.raises /\ json_loads(clean_markdown(llm_answer.content)) \notin ObjectPieces) =>
               /\ summary_result.structured_summary.model_confidence = 50
               /\ summary_result.structured_summary.final_signal = "Hold"
               /\ summary_result.structured_summary.risk_level = "Medium"

\* C24 (as claimed): every structured_summary the summary node returns, on
\* the success path and on each fallback path, has model_confidence in
\* 0 .. 100, final_signal Buy, Sell or Hold, and a risk level High, Medium or
\* Low with a score in 0 .. 10.
C24_SummaryWithinRanges ==
    summary_result.outcome = "returned" =>
        /\ summary_result.structured_summary.model_confidence \in 0 .. 100
        /\ summary_result.structured_summary.final_signal \in {"Buy", "Sell", "Hold"}
        /\ summary_result.structured_summary.risk_level \in {"High", "Medium", "Low"}
        /\ summary_result.structured_summary.risk_score \in 0 .. 10

\* ------------------------------------------------------------------ debate report
\* needle in hay, for texts
IsIn(needle, hay) ==
    \E i \in 1 .. (Len(hay) - Len(needle) + 1) :
        SubSeq(hay, i, i + Len(needle) - 1) = needle

\* how many times needle occurs in hay
Occurrences(needle, hay) ==
    Cardinality({ i \in 1 .. (Len(hay) - Len(needle) + 1) :
                      SubSeq(hay, i, i + Len(needle) - 1) = needle })

DebateRoles == {"bull", "bear"}
RoleMark(role) == IF role = "bull" THEN "bull_mark_cn" ELSE "bear_mark_cn"

\* the title of the section of a round in a researcher's report: one for the
\* initial report, one for each round of the debate
section_title(role, current_round_index) ==
    <<Tok("## "), Tok(role), RoundTok(current_round_index)>>

\* the heading of an utterance in the histories
argument_prefix(role, current_round_index) ==
    <<Tok("# "), Tok(RoleMark(role)), RoundTok(current_round_index)>>

\* What the model may answer a researcher.  A heading of its own on a line
\* survives the cleaning unless it is a level-one heading; a heading quoted
\* inside a line always survives.
DebateAnswers ==
    { << <<Tok("text")>> >>,
      << section_title("bull", 0), <<Tok("text")>> >>,
      << <<Tok("text")>>, section_title("bull", 1) >>,
      << <<Tok("text")>> \o argument_prefix("bull", 1) >>,
      << argument_prefix("bull", 0), <<Tok("text")>> >> }

\* The accumulation of a researcher node: the report section and the history
\* entry of the round are appended unless the title (the prefix) is already in
\* the report (the researcher's history); count is incremented in both cases.
accumulate(state, role, answer) ==
    LET current_round_index == state.current_round_index
        content == CleanContent(answer)
        title == section_title(role, current_round_index)
        report_key == IF role = "bull" THEN "bull_report_content" ELSE "bear_report_content"
        history_key == IF role = "bull" THEN "bull_history" ELSE "bear_history"
        report_skipped == IsIn(title, state[report_key])
        new_report_section == <<NL, NL>> \o title \o <<NL, NL>> \o content
        prefix == argument_prefix(role, current_round_index)
        argument == prefix \o <<NL>> \o content
        history_skipped == IsIn(prefix, state[history_key])
    IN  [ state EXCEPT
            ![report_key] = IF report_skipped THEN @ ELSE @ \o new_report_section,
            !.report_appends = IF report_skipped THEN @ ELSE @ + 1,
            !.history = IF history_skipped THEN @ ELSE @ \o <<NL>> \o argument,
            ![history_key] = IF history_skipped THEN @ ELSE @ \o <<NL>> \o argument,
            !.history_appends = IF history_skipped THEN @ ELSE @ + 1,
            !.current_response = argument,
            !.count = state.count + 1,
            !.current_round_index = (state.count + 1) \div 2 ]

\* the part of the state the router reads
Routed(state) ==
    [ current_response |-> state.current_response, count |-> state.count,
      current_round_index |-> state.current_round_index ]

\* bull_node: the report and history accumulation, then the conditional edge
bull_node_report(answer) ==
    /\ debate_node = "Bull Researcher"
    /\ debate_state' = accumulate(debate_state, "bull", answer)
    /\ debate_node' = should_continue_debate(Routed(debate_state'))
    /\ DebateOnly

\* the Bear Researcher's node, the mirror of bull_node
bear_node_report(answer) ==
    /\ debate_node = "Bear Researcher"
    /\ debate_state' = accumulate(debate_state, "bear", answer)
    /\ debate_node' = should_continue_debate(Routed(debate_state'))
    /\ DebateOnly

InitDebate ==
    /\ debate_state = EmptyDebate
    /\ debate_node = "Bull Researcher"

NextDebate ==
    \/ \E answer \in DebateAnswers : bull_node_report(answer)
    \/ \E answer \in DebateAnswers : bear_node_report(answer)

StartDebate == InitDebate /\ IdleCore /\ IdleBreaker /\ IdleLoad /\ IdleBatch /\ IdleStatus /\ IdleResult /\ IdleSummary /\ IdleConfig /\ IdleWs /\ IdleAnalysts /\ IdleInit /\ IdleDelete /\ IdleProgress /\ IdleWriteThrough
SpecDebate == StartDebate /\ [][NextDebate]_vars

\* ------------------------------------------------------------------ claims: debate report
\* C21 (as claimed): after any sequence of researcher node executions the
\* debate count equals the number of utterances appended to the accumulated
\* history and to the accumulated reports, and no round section title occurs
\* more than once in an accumulated report.
C21_CountIsAppendedUtterances ==
    /\ debate_state.count = debate_state.history_appends
    /\ debate_state.count = debate_state.report_appends
    /\ \A i \in 0 .. MaxDebateRounds :
          /\ Occurrences(section_title("bull", i), debate_state.bull_report_content) <= 1
          /\ Occurrences(section_title("bear", i), debate_state.bear_report_content) <= 1

\* ------------------------------------------------------------------ agent configuration cache
\* What a configuration file may hold: two lists of modes, nothing, or text
\* that is not YAML.
ConfigTexts == {"modes_a", "modes_b", "", "not_yaml"}
EMPTY_CONFIG == "{}"

\* yaml.safe_load(f): the modes of the file, None for an empty file
safe_load(text) ==
    CASE text = "modes_a" -> "config_a"
      [] text = "modes_b" -> "config_b"
      [] text = "" -> "None"
      [] OTHER -> "YAMLError"

\* os.path.getmtime(config_path), None (here -1) when it raises
getmtime(file) == IF file.exists THEN file.mtime ELSE -1

\* what reading the file gives: the try block of load_config
read_config(file) ==
    IF ~file.exists THEN "OSError"
    ELSE LET config == safe_load(file.text)
         IN  IF config = "YAMLError" THEN "YAMLError"
             ELSE IF config = "None" THEN EMPTY_CONFIG ELSE config

IsError(value) == value \in {"OSError", "YAMLError"}

\* what a load that does not use the cache answers for the file
current_config(file) ==
    IF IsError(read_config(file)) THEN EMPTY_CONFIG ELSE read_config(file)

\* the cache test of load_config, without the comparison of the mtimes
cache_hit_any_mtime(config_path, mtime) ==
    /\ config_cache[config_path] # "none"
    /\ config_mtime[config_path] # -1
    /\ mtime # -1

\* the cache test of load_config
cache_hit(config_path, mtime) ==
    /\ config_cache[config_path] # "none"
    /\ config_mtime[config_path] # -1
    /\ mtime # -1
    /\ config_mtime[config_path] = mtime

\* DynamicAnalystFactory.load_config(config_path)
load_config(config_path) ==
    LET file == config_files[config_path]
        mtime == getmtime(file)
        hit == cache_hit(config_path, mtime)
        read == read_config(file)
        stale == \/ config_cache[config_path] = "none"
                 \/ config_mtime[config_path] # mtime
    IN  /\ IF hit
           THEN /\ last_load' = [ path |-> config_path, hit |-> TRUE, stale |-> stale,
                                  result |-> config_cache[config_path],
                                  current |-> current_config(file) ]
                /\ UNCHANGED <<config_cache, config_mtime>>
           ELSE IF IsError(read)
           THEN /\ last_load' = [ path |-> config_path, hit |-> FALSE, stale |-> stale,
                                  result |-> EMPTY_CONFIG,
                                  current |-> current_config(file) ]
                /\ UNCHANGED <<config_cache, config_mtime>>
           ELSE /\ config_cache' = [config_cache EXCEPT ![config_path] = read]
                /\ config_mtime' = IF mtime # -1
                                   THEN [config_mtime EXCEPT ![config_path] = mtime]
                                   ELSE config_mtime
                /\ last_load' = [ path |-> config_path, hit |-> FALSE, stale |-> stale,
                                  result |-> read, current |-> current_config(file) ]
        /\ UNCHANGED config_files
        /\ ConfigOnly

\* DynamicAnalystFactory.clear_cache()
clear_cache ==
    /\ config_cache' = [ path \in ConfigPaths |-> "none" ]
    /\ config_mtime' = [ path \in ConfigPaths |-> -1 ]

\* The file is written by replacing it; its mtime is the time of the write,
\* which the clock's resolution may leave equal to the one before.
dump_modes(config_path, text, mtime) ==
    config_files' = [config_files EXCEPT
                        ![config_path] = [ exists |-> TRUE, text |-> text, mtime |-> mtime ]]

WriteTimes(config_path) ==
    { m \in 0 .. MaxMtime : m >= config_files[config_path].mtime }

\* PUT /api/agent-configs/{phase}: the file is written, then the cache cleared
save_agent_config(config_path, modes, mtime) ==
    /\ mtime \in WriteTimes(config_path)
    /\ dump_modes(config_path, modes, mtime)
    /\ clear_cache
    /\ last_load' = NoLoad
    /\ ConfigOnly

\* the file is edited outside the application
edit_file(config_path, text, mtime) ==
    /\ mtime \in WriteTimes(config_path)
    /\ dump_modes(config_path, text, mtime)
    /\ last_load' = NoLoad
    /\ UNCHANGED <<config_cache, config_mtime>>
    /\ ConfigOnly

\* the file is removed outside the application
remove_file(config_path) ==
    /\ config_files[config_path].exists
    /\ config_files' = [config_files EXCEPT ![config_path].exists = FALSE]
    /\ last_load' = NoLoad
    /\ UNCHANGED <<config_cache, config_mtime>>
    /\ ConfigOnly

InitConfig == IdleConfig

NextConfig ==
    \/ \E config_path \in ConfigPaths : load_config(config_path)
    \/ \E config_path \in ConfigPaths, modes \in {"modes_a", "modes_b"}, mtime \in 0 .. MaxMtime :
          save_agent_config(config_path, modes, mtime)
    \/ \E config_path \in ConfigPaths, text \in ConfigTexts, mtime \in 0 .. MaxMtime :
          edit_file(config_path, text, mtime)
    \/ \E config_path \in ConfigPaths : remove_file(config_path)

StartConfig == InitConfig /\ IdleCore /\ IdleBreaker /\ IdleLoad /\ IdleBatch /\ IdleStatus /\ IdleResult /\ IdleSummary /\ IdleDebate /\ IdleWs /\ IdleAnalysts /\ IdleInit /\ IdleDelete /\ IdleProgress /\ IdleWriteThrough
SpecConfig == StartConfig /\ [][NextConfig]_vars

\* ------------------------------------------------------------------ claims: agent configuration cache
\* C22: a load is served from the cache only while the path is cached and
\* the file's mtime equals the cached one; a load made when the cache holds
\* nothing for the path (it was cleared, as the PUT does after writing) or
\* when the mtime differs from the cached one returns what the file holds at
\* that moment, not what was cached before.
C22_StaleCacheNeverServed ==
    last_load.path # "none" =>
        /\ last_load.hit => ~last_load.stale
        /\ last_load.stale => last_load.result = last_load.current

\* a load after the file was rewritten with another mtime while the old
\* content was cached
C22_Witness ==
    /\ last_load.path = "custom.yaml"
    /\ last_load.stale
    /\ last_load.result = "config_b"
    /\ config_cache["custom.yaml"] = "config_b"
    /\ config_mtime["custom.yaml"] = 1

\* ------------------------------------------------------------------ progress subscriptions
\* websocket_manager.connect: the socket is accepted and added to the
\* subscribers of the task
ws_connect(socket) == ws_subscriptions' = ws_subscriptions \cup {socket}

\* the handler's finally clause, if it also cancelled the task
ws_finally_cancelling(socket) ==
    /\ ws_subscriptions' = ws_subscriptions \ {socket}
    /\ ws_task' = [ws_task EXCEPT !.status = "cancelled"]

\* the handler's finally clause: websocket_manager.disconnect(websocket, task_id)
ws_finally(socket) ==
    /\ ws_subscriptions' = ws_subscriptions \ {socket}
    /\ UNCHANGED ws_task

\* websocket_task_progress up to the receive loop: connect, then the
\* confirmation message; either may raise, which ends the handler
websocket_connect(socket, raises) ==
    /\ ws_pc[socket] = "start"
    /\ IF raises
       THEN /\ ws_pc' = [ws_pc EXCEPT ![socket] = "closed"]
            /\ ws_finally(socket)
       ELSE /\ ws_pc' = [ws_pc EXCEPT ![socket] = "connected"]
            /\ ws_connect(socket)
            /\ UNCHANGED ws_task
    /\ WsOnly

websocket_send_established(socket, raises) ==
    /\ ws_pc[socket] = "connected"
    /\ IF raises
       THEN /\ ws_pc' = [ws_pc EXCEPT ![socket] = "closed"]
            /\ ws_finally(socket)
       ELSE /\ ws_pc' = [ws_pc EXCEPT ![socket] = "receiving"]
            /\ UNCHANGED <<ws_subscriptions, ws_task>>
    /\ WsOnly

\* one turn of the receive loop: a message is read and logged, or the client
\* disconnects, or the read raises something else
websocket_receive(socket, event) ==
    /\ ws_pc[socket] = "receiving"
    /\ IF event = "text"
       THEN UNCHANGED <<ws_pc, ws_subscriptions, ws_task>>
       ELSE /\ ws_pc' = [ws_pc EXCEPT ![socket] = "closed"]
            /\ ws_finally(socket)
    /\ WsOnly

\* the analysis of the task: a node ends, and after the last one the result
\* is saved and the task completed
run_node ==
    /\ ws_task.status = "running"
    /\ ws_task' = IF ws_task.nodes_done + 1 < MaxNodes
                  THEN [ws_task EXCEPT !.nodes_done = @ + 1]
                  ELSE [ status |-> "completed", nodes_done |-> MaxNodes,
                         persisted |-> TRUE ]
    /\ UNCHANGED <<ws_pc, ws_subscriptions>>
    /\ WsOnly

InitWs ==
    /\ ws_pc = [ socket \in Sockets |-> "start" ]
    /\ ws_subscriptions = {}
    /\ ws_task = [ status |-> "running", nodes_done |-> 0, persisted |-> FALSE ]

NextWs ==
    \/ \E socket \in Sockets, raises \in BOOLEAN : websocket_connect(socket, raises)
    \/ \E socket \in Sockets, raises \in BOOLEAN : websocket_send_established(socket, raises)
    \/ \E socket \in Sockets, event \in {"text", "disconnect", "error"} :
          websocket_receive(socket, event)
    \/ run_node

StartWs == InitWs /\ IdleCore /\ IdleBreaker /\ IdleLoad /\ IdleBatch /\ IdleStatus /\ IdleResult /\ IdleSummary /\ IdleDebate /\ IdleConfig /\ IdleAnalysts /\ IdleInit /\ IdleDelete /\ IdleProgress /\ IdleWriteThrough
SpecWs == StartWs /\ [][NextWs]_vars

\* ------------------------------------------------------------------ claims: progress subscriptions
\* C23: when a subscriber's handler has ended, for whatever reason, its
\* subscription is removed; whatever the subscribers do, the task is never
\* cancelled or failed: while it runs its next node can run, and once it is
\* completed its result is persisted.
C23_DisconnectLeavesTask ==
    /\ \A socket \in Sockets : ws_pc[socket] = "closed" => socket \notin ws_subscriptions
    /\ ws_task.status \in {"running", "completed"}
    /\ ws_task.status = "running" => ENABLED run_node
    /\ ws_task.status = "completed" => ws_task.persisted

\* every subscriber left while the task ran, and the task completed
C23_Witness ==
    /\ \A socket \in Sockets : ws_pc[socket] = "closed"
    /\ ws_task.status = "completed"
    /\ ws_task.persisted

\* ------------------------------------------------------------------ analyst report keys
\* A slug is a text made of pieces: two words, a hyphen, an underscore and
\* the suffix "-analyst".
SlugPieces == {"market", "news", "-", "_", "-analyst"}
SlugTexts == UNION { [1 .. n -> SlugPieces] : n \in 1 .. MaxSlugLen }

RECURSIVE replace(_, _, _)
\* text.replace(old, new), for a text of pieces and pieces old and new ("" for
\* nothing)
replace(text, old, new) ==
    IF text = <<>> THEN <<>>
    ELSE (IF Head(text) = old THEN (IF new = "" THEN <<>> ELSE <<new>>) ELSE <<Head(text)>>)
             \o replace(Tail(text), old, new)

\* slug.replace("-analyst", "").replace("-", "_")
internal_key_of(slug) == replace(replace(slug, "-analyst", ""), "-", "_")

\* f"{internal_key}_report" and f"{internal_key}_tool_call_count"
report_key_of(slug) == [ internal_key |-> internal_key_of(slug), suffix |-> "_report" ]
tool_call_count_key_of(slug) ==
    [ internal_key |-> internal_key_of(slug), suffix |-> "_tool_call_count" ]

\* The keys of the result of GenericAgent.run that belong to the analyst: its
\* report key (also the key of its entry in the reports dict) and its tool
\* call count.  "messages", "report" and "reports" are written by every analyst.
own_keys(slug) == { report_key_of(slug), tool_call_count_key_of(slug) }
SharedKeys == { [ internal_key |-> <<>>, suffix |-> "messages" ],
                [ internal_key |-> <<>>, suffix |-> "report" ],
                [ internal_key |-> <<>>, suffix |-> "reports" ] }

\* GenericAgent.run of the i-th enabled analyst: the keys of its result are
\* written to the state, and its report into the reports dict
generic_agent_run(i) ==
    /\ i \in DOMAIN enabled_slugs
    /\ i \notin analysts_run
    /\ analysts_run' = analysts_run \cup {i}
    /\ LET slug == enabled_slugs[i]
       IN  /\ key_writers' =
                  key_writers \cup { [ key |-> k, slug |-> slug ] :
                                       k \in own_keys(slug) \cup SharedKeys }
           /\ reports_dict' =
                  [ k \in DOMAIN reports_dict \cup {report_key_of(slug)} |->
                      IF k = report_key_of(slug) THEN slug ELSE reports_dict[k] ]
    /\ UNCHANGED enabled_slugs
    /\ AnalystsOnly

InitAnalysts ==
    /\ enabled_slugs \in InjectiveSeqs(SlugTexts, 2)
    /\ analysts_run = {}
    /\ key_writers = {}
    /\ reports_dict = << >>

NextAnalysts == \E i \in 1 .. 2 : generic_agent_run(i)

StartAnalysts == InitAnalysts /\ IdleCore /\ IdleBreaker /\ IdleLoad /\ IdleBatch /\ IdleStatus /\ IdleResult /\ IdleSummary /\ IdleDebate /\ IdleConfig /\ IdleWs /\ IdleInit /\ IdleDelete /\ IdleProgress /\ IdleWriteThrough
SpecAnalysts == StartAnalysts /\ [][NextAnalysts]_vars

\* ------------------------------------------------------------------ claims: analyst report keys
\* C25 (as claimed): for two enabled analyst records with distinct slugs, the
\* keys one analyst's node writes for itself (its report key, its entry of the
\* reports dict, its tool call count) are never written by the other's node,
\* so the report of each analyst that ran is in the reports dict.
C25_ReportKeysDisjoint ==
    /\ \A w1, w2 \in key_writers :
          (w1.key = w2.key /\ w1.key \notin SharedKeys) => w1.slug = w2.slug
    /\ \A i \in analysts_run :
          reports_dict[report_key_of(enabled_slugs[i])] = enabled_slugs[i]

\* ------------------------------------------------------------------ initialize_connections, step by step
\* the second test of _initialized, if it were left out
double_check_skipped == FALSE

\* the second test of _initialized, made once the lock is held
double_check == initialized

\* what the steps of initialize_connections leave alone in the loader
initFrame == <<clock, last_restart_time, restart_log, restart_outcome, toggle_call,
               reload_pc, closed>>

\* initialize_connections is called: the first test of _initialized, made
\* before the lock is requested
init_call(c) ==
    /\ init_pc[c] \in {"idle", "returned"}
    /\ init_pc' = [init_pc EXCEPT ![c] = IF initialized THEN "returned" ELSE "waiting"]
    /\ UNCHANGED <<init_pending, dial_count>>
    /\ UNCHANGED mcpVars
    /\ McpInitOnly

\* The lock is acquired.  If the connections are initialized by now the call
\* returns; if the configuration file does not exist the loader is marked
\* initialized; otherwise the configuration is read, the servers registered
\* and the enabled ones queued for dialing.
init_lock(c, config_exists) ==
    /\ init_pc[c] = "waiting"
    /\ bridge_lock = "free"
    /\ IF double_check
       THEN /\ init_pc' = [init_pc EXCEPT ![c] = "returned"]
            /\ UNCHANGED <<init_pending, initialized, server_configs, enabled_servers,
                           server_status, bridge_lock>>
       ELSE IF ~config_exists
       THEN /\ init_pc' = [init_pc EXCEPT ![c] = "returned"]
            /\ initialized' = TRUE
            /\ UNCHANGED <<init_pending, server_configs, enabled_servers, server_status,
                           bridge_lock>>
       ELSE /\ init_pc' = [init_pc EXCEPT ![c] = "dialing"]
            /\ bridge_lock' = c
            /\ server_configs' = ConfiguredServers
            /\ enabled_servers' = EnabledServers
            /\ server_status' =
                   [ n \in ServerNames |->
                       IF n \notin ConfiguredServers THEN server_status[n]
                       ELSE IF n \in EnabledServers THEN "unknown"
                       ELSE "stopped" ]
            /\ init_pending' = ConfiguredServers \cap EnabledServers
            /\ UNCHANGED initialized
    /\ UNCHANGED <<mcp_clients, mcp_tools, tracked_pids, restart_counts, children, dial_count>>
    /\ UNCHANGED initFrame
    /\ McpInitOnly

\* _initialize_single_server for the next queued server, the lock held: a
\* server that has no client yet is dialed
init_dial(c, dialed) ==
    /\ init_pc[c] = "dialing"
    /\ init_pending # {}
    /\ LET name == CHOOSE n \in init_pending : TRUE
       IN  /\ Install(initialize_single_server(Loader, name, dialed))
           /\ dial_count' = IF name \in mcp_clients THEN dial_count
                            ELSE [dial_count EXCEPT ![name] = @ + 1]
           /\ init_pending' = init_pending \ {name}
    /\ UNCHANGED <<init_pc, initialized, server_configs, enabled_servers, bridge_lock>>
    /\ UNCHANGED initFrame
    /\ McpInitOnly

\* every queued server was handled: _initialized is set and the lock released
init_done(c) ==
    /\ init_pc[c] = "dialing"
    /\ init_pending = {}
    /\ initialized' = TRUE
    /\ bridge_lock' = "free"
    /\ init_pc' = [init_pc EXCEPT ![c] = "returned"]
    /\ UNCHANGED <<init_pending, dial_count, server_configs, enabled_servers, mcp_clients,
                   mcp_tools, tracked_pids, server_status, restart_counts, children>>
    /\ UNCHANGED initFrame
    /\ McpInitOnly

InitInit ==
    /\ init_pc = [ c \in InitCallers |-> "idle" ]
    /\ init_pending = {}
    /\ dial_count = [ n \in ServerNames |-> 0 ]

NextInit ==
    \/ \E c \in InitCallers : init_call(c)
    \/ \E c \in InitCallers, config_exists \in BOOLEAN : init_lock(c, config_exists)
    \/ \E c \in InitCallers, dialed \in BOOLEAN : init_dial(c, dialed)
    \/ \E c \in InitCallers : init_done(c)

StartInit == InitInit /\ IdleCore /\ IdleBreaker /\ IdleLoad /\ IdleBatch /\ IdleStatus /\ IdleResult /\ IdleSummary /\ IdleDebate /\ IdleConfig /\ IdleWs /\ IdleAnalysts /\ IdleDelete /\ IdleProgress /\ IdleWriteThrough
SpecInit == StartInit /\ [][NextInit]_vars

\* ------------------------------------------------------------------ claims: initialize_connections
\* C26: however the initialize_connections calls interleave, each server is
\* dialed at most once and only by the call that holds the lock; once the
\* connections are initialized, a call dials nothing and changes nothing of
\* the loader.
C26_DialedAtMostOnce ==
    /\ [](\A name \in ServerNames : dial_count[name] <= 1)
    /\ [][ initialized =>
             UNCHANGED <<initialized, server_configs, enabled_servers, mcp_clients,
                         mcp_tools, tracked_pids, server_status, restart_counts,
                         children, bridge_lock, dial_count>> ]_vars

\* the calls overlapped: one dialed the enabled server without success, the
\* others returned without dialing it again
C26_Witness ==
    /\ initialized
    /\ \A c \in InitCallers : init_pc[c] = "returned"
    /\ dial_count["finance"] = 1
    /\ server_status["finance"] = "unreachable"

\* ------------------------------------------------------------------ deletion and status lookup
\* DELETE /tasks/{task_id}: memory_manager.remove_task, then
\* analysis_tasks.delete_one; the answer is a success whether or not a
\* document was deleted.  analysis_reports is not touched.
delete_task_layers ==
    /\ ~delete_response.success
    /\ memory_table' = Absent
    /\ analysis_tasks' = Absent
    /\ delete_response' = [ success |-> TRUE,
                            deleted_count |-> IF analysis_tasks.held THEN 1 ELSE 0 ]
    /\ UNCHANGED <<analysis_reports, status_response>>
    /\ StatusDeleteOnly

NextDelete ==
    \/ delete_task_layers
    \/ ask_status

StartDelete == InitStatus /\ IdleCore /\ IdleBreaker /\ IdleLoad /\ IdleBatch /\ IdleResult /\ IdleSummary /\ IdleDebate /\ IdleConfig /\ IdleWs /\ IdleAnalysts /\ IdleInit /\ IdleDelete /\ IdleProgress /\ IdleWriteThrough
SpecDelete == StartDelete /\ [][NextDelete]_vars

\* ------------------------------------------------------------------ claims: deletion and status lookup
\* C29 (as claimed): once the delete endpoint has succeeded for the task, a
\* status lookup for it answers 404: no storage layer reports the task again.
C29_DeletedTaskNotFound ==
    delete_response.success =>
        get_task_status_new(memory_table, analysis_tasks, analysis_reports).code = 404

\* ------------------------------------------------------------------ progress manager
\* ProgressManager keeps one callback for the process, in a class attribute.

\* ProgressManager.set_callback(callback): the run of a task registers the
\* task's progress callback before its graph starts
set_callback(task) ==
    /\ run_pc[task] = "new"
    /\ run_pc' = [run_pc EXCEPT ![task] = "running"]
    /\ pm_callback' = task
    /\ UNCHANGED <<nodes_started, deliveries>>
    /\ ProgressOnly

\* ProgressManager.node_start(display_name), called by a node of the task's
\* graph: the registered callback, if there is one, is invoked
pm_node_start(task) ==
    /\ run_pc[task] = "running"
    /\ nodes_started[task] < MaxNodes
    /\ nodes_started' = [nodes_started EXCEPT ![task] = @ + 1]
    /\ deliveries' = IF pm_callback # "none"
                     THEN deliveries \cup {[ node_of |-> task, callback_of |-> pm_callback ]}
                     ELSE deliveries
    /\ UNCHANGED <<run_pc, pm_callback>>
    /\ ProgressOnly

\* ProgressManager.clear_callback(): the run of a task ends
clear_callback(task) ==
    /\ run_pc[task] = "running"
    /\ run_pc' = [run_pc EXCEPT ![task] = "done"]
    /\ pm_callback' = "none"
    /\ UNCHANGED <<nodes_started, deliveries>>
    /\ ProgressOnly

InitProgress ==
    /\ run_pc = [ task \in ProgressTasks |-> "new" ]
    /\ pm_callback = "none"
    /\ nodes_started = [ task \in ProgressTasks |-> 0 ]
    /\ deliveries = {}

NextProgress ==
    \/ \E task \in ProgressTasks : set_callback(task)
    \/ \E task \in ProgressTasks : pm_node_start(task)
    \/ \E task \in ProgressTasks : clear_callback(task)

StartProgress == InitProgress /\ IdleCore /\ IdleBreaker /\ IdleLoad /\ IdleBatch /\ IdleStatus /\ IdleResult /\ IdleSummary /\ IdleDebate /\ IdleConfig /\ IdleWs /\ IdleAnalysts /\ IdleInit /\ IdleDelete /\ IdleWriteThrough
SpecProgress == StartProgress /\ [][NextProgress]_vars

\* ------------------------------------------------------------------ claims: progress manager
\* C28 (as claimed): when several analyses run in one process, a node-start
\* notification is delivered to the progress callback of the task whose node
\* started, never to the callback another task registered.
C28_DeliveredToOwnCallback ==
    \A d \in deliveries : d.callback_of = d.node_of

\* ------------------------------------------------------------------ write-through rows
\* the bars a save is asked to write: (code, trade date, provider, period)
bars_of(code, items, source, period) ==
    { [ code |-> code, trade_date |-> trade_date_of(items[i]), data_source |-> source,
        period |-> period ] : i \in { k \in DOMAIN items : trade_date_of(items[k]) # <<>> } }

\* _save_kline_to_db(code, items, source, period): the documents are built
\* and written in one bulk_write; an exception is logged and dropped
save_kline_to_db(code, items, source, period, write) ==
    /\ saves_done < MaxSaves
    /\ LET operations == kline_operations(code, items, source, period, saves_done + 1)
       IN  /\ write \in WriteOutcomes(operations)
           /\ quote_rows' = bulk_write(quote_rows, operations, write.applied)
           /\ saved_bars' = IF write.ok
                            THEN saved_bars \cup bars_of(code, items, source, period)
                            ELSE saved_bars
    /\ saves_done' = saves_done + 1
    /\ WriteThroughOnly

InitWriteThrough ==
    /\ quote_rows = <<>>
    /\ saved_bars = {}
    /\ saves_done = 0

NextWriteThrough ==
    \E code \in Codes, response \in KlineResults, source \in AdapterSet, period \in Periods :
        \E write \in WriteOutcomes(kline_operations(code, response.items, source, period, 0)) :
            save_kline_to_db(code, response.items, source, period, write)

StartWriteThrough == InitWriteThrough /\ IdleCore /\ IdleBreaker /\ IdleLoad /\ IdleBatch /\ IdleStatus /\ IdleResult /\ IdleSummary /\ IdleDebate /\ IdleConfig /\ IdleWs /\ IdleAnalysts /\ IdleInit /\ IdleDelete /\ IdleProgress
SpecWriteThrough == StartWriteThrough /\ [][NextWriteThrough]_vars

\* the row of the store that holds a saved bar
row_of(bar, i) ==
    /\ i \in DOMAIN quote_rows
    /\ quote_rows[i].symbol = symbol_of(bar.code)
    /\ quote_rows[i].trade_date = bar.trade_date
    /\ quote_rows[i].data_source = bar.data_source
    /\ quote_rows[i].period = bar.period

\* ------------------------------------------------------------------ claims: write-through rows
\* C30 (as claimed): two bars saved for different codes, such as 000001.SZ
\* and 000001.SH, with the same date, provider and period, are held by two
\* different rows of the quote store: neither overwrote the other.
C30_CodesKeepDistinctRows ==
    \A b1, b2 \in saved_bars :
        b1.code # b2.code =>
            \E i, j \in DOMAIN quote_rows : i # j /\ row_of(b1, i) /\ row_of(b2, j)

====
